---- MODULE Spec2Model ----
(***************************************************************************)
(* Model of the iterative research orchestration loop of                   *)
(* mcp-research-tool (src/src/orchestrator.ts) together with the pure      *)
(* helpers it calls (src/src/queryOptimizer.ts, src/src/tools.ts).         *)
(*                                                                         *)
(* Numbers: relevance scores are kept in thousandths (0.3 is 300), the     *)
(* confidence of a tool result in tenths; computed confidences are exact   *)
(* rationals <<numerator, denominator>>, so that the division by the       *)
(* number of successful results is not rounded and 0/0 (NaN) is a          *)
(* rational with denominator 0.                                            *)
(* JSON values returned by the reasoning service are tagged:               *)
(* [t |-> "list", v |-> <<...>>] is an array, any other tag is a value     *)
(* that has none of the array methods.                                     *)
(***************************************************************************)
EXTENDS Integers, Sequences, FiniteSets, TLC

\* ------------------------------------------------------------------ bounds
\* number of catalog entries that are registered (the repository has 12)
NumTools == 2
\* largest depth a caller passes (the entry point documents 1..5)
MaxDepth == 3
\* longest list of tool ids in a selection reply of the reasoning service
MaxReplyLen == 3

\* ------------------------------------------------------- small utilities
Min(a, b) == IF a <= b THEN a ELSE b
Max(a, b) == IF a >= b THEN a ELSE b
Range(s) == {s[i] : i \in DOMAIN s}

\* Array.prototype.filter with a predicate on the element
RECURSIVE SelectSeqBy(_, _)
SelectSeqBy(s, keep) ==
  IF s = <<>> THEN <<>>
  ELSE (IF Head(s) \in keep THEN <<Head(s)>> ELSE <<>>) \o SelectSeqBy(Tail(s), keep)

\* all sequences over S of length 0..n
SeqUpTo(S, n) == UNION {[1..k -> S] : k \in 0..n}

\* JSON values
JList(s) == [t |-> "list", v |-> s]
JString == [t |-> "string", v |-> <<>>]
IsList(j) == j.t = "list"

\* ------------------------------------------------------------- the catalog
\* Tool cards in declaration order (src/src/tools.ts).  qt holds the
\* query-type affinities in tenths, conf the confidence the tool passes to
\* handleToolSuccess in tenths, needs the parameter its execute() requires,
\* data the shape of the payload of a successful call.
Catalog == <<
  [id |-> "brave_search", name |-> "Brave Search",
   patterns |-> {"search", "find", "look up", "what is", "how to", "where", "when", "who", "why"},
   qt |-> [general_knowledge |-> 8, current_events |-> 8, technical |-> 6],
   entityTypes |-> {"person", "organization", "location", "technology", "concept"},
   urlCheck |-> "none", needs |-> "query", conf |-> 8],
  [id |-> "tavily_search", name |-> "Tavily Search",
   patterns |-> {"latest", "news", "recent", "current", "development", "breakthrough", "update"},
   qt |-> [current_events |-> 9, technical |-> 8, general_knowledge |-> 7],
   entityTypes |-> {"person", "organization", "technology", "event"},
   urlCheck |-> "none", needs |-> "query", conf |-> 9],
  [id |-> "github_repo_search", name |-> "GitHub Repository Search",
   patterns |-> {"github", "repository", "repo", "code", "library", "framework", "package", "project"},
   qt |-> [technical |-> 9, code_related |-> 9, general_knowledge |-> 3],
   entityTypes |-> {"technology", "programming_language", "framework", "library"},
   urlCheck |-> "none", needs |-> "query", conf |-> 8],
  [id |-> "github_code_search", name |-> "GitHub Code Search",
   patterns |-> {"code", "implementation", "example", "function", "class", "method", "pattern"},
   qt |-> [technical |-> 9, code_related |-> 9, implementation |-> 8],
   entityTypes |-> {"programming_language", "framework", "library", "function"},
   urlCheck |-> "none", needs |-> "query", conf |-> 8],
  [id |-> "fire_crawl", name |-> "FireCrawl",
   patterns |-> {"extract", "crawl", "scrape", "content", "article", "page", "website"},
   qt |-> [content_extraction |-> 9, article_analysis |-> 8, technical |-> 6],
   entityTypes |-> {"webpage", "article", "blog_post"},
   urlCheck |-> "any", needs |-> "url", conf |-> 8]
>>

\* Object.values(tools): the registered tools, in declaration order
tools == SubSeq(Catalog, 1, NumTools)
ToolIds == {tools[i].id : i \in DOMAIN tools}
\* an id the reasoning service may invent and that no tool carries
UnknownId == "made_up_tool"

\* tools.find(tool => tool.id === id): the first tool with that id, or
\* undefined
Undefined == [id |-> "undefined"]
FindTool(id) ==
  IF id \in ToolIds
  THEN tools[CHOOSE i \in DOMAIN tools : tools[i].id = id /\ \A j \in 1..(i-1) : tools[j].id # id]
  ELSE Undefined

\* ------------------------------------------------------------- the queries
\* A query text is represented by what the code reads from it: the
\* lower-cased pattern phrases it contains, the URLs and the media links
\* the two regular expressions of queryOptimizer.ts find in it, and
\* whether it is a string at all (a follow-up query comes out of JSON.parse
\* unchecked).
QueryWhatIs == [text |-> "What is the capital of France?", isString |-> TRUE,
                phrases |-> {"what is"}, urls |-> <<>>, yt |-> <<>>]
QueryFollowUp == [text |-> "latest github code for france api", isString |-> TRUE,
                  phrases |-> {"latest", "github", "code"}, urls |-> <<>>, yt |-> <<>>]
QueryNumber == [text |-> "42", isString |-> FALSE,
                phrases |-> {}, urls |-> <<>>, yt |-> <<>>]
QueryPlain == [text |-> "quantum entanglement", isString |-> TRUE,
               phrases |-> {}, urls |-> <<>>, yt |-> <<>>]
Queries == {QueryWhatIs}

extractUrls(q) == q.urls
extractYouTubeUrls(q) == q.yt

\* ------------------------------------------------------------ analyzeQuery
JAbsent == [t |-> "absent", v |-> <<>>]
\* parsedResult.field || fallbackValue
OrDefault(j, d) == IF j.t = "absent" THEN d ELSE j

Half == <<1, 2>>
SevenTenths == <<7, 10>>

\* what callLLM + JSON.parse hand to analyzeQuery: kind "throw" is a failed
\* call or unparsable text, kind "null" is the JSON value null, kind
\* "object" is an object whose fields are any JSON value or absent
AnalysisReply(ent, types, cons) ==
  [kind |-> "object", intent |-> "explain", entities |-> ent,
   queryTypes |-> types, constraints |-> cons]
AnalysisReplies ==
  { [kind |-> "throw", intent |-> "", entities |-> JAbsent, queryTypes |-> JAbsent, constraints |-> JAbsent],
    [kind |-> "null", intent |-> "", entities |-> JAbsent, queryTypes |-> JAbsent, constraints |-> JAbsent],
    AnalysisReply(JList(<<"location">>), JList(<<"general_knowledge">>), JAbsent),
    AnalysisReply(JString, JList(<<"technical">>), JAbsent),
    AnalysisReply(JList(<<"technology">>), JString, JAbsent),
    AnalysisReply(JList(<<"technology">>), JList(<<"technical">>), JString) }

\* the catch block of queryOptimizer.ts with the two URL lists left out
analyzeQueryFallbackNoUrls(query) ==
  [originalQuery |-> query.text, intent |-> "search", entities |-> JList(<<>>),
   constraints |-> JList(<<>>), queryTypes |-> JList(<<"general_knowledge">>),
   extractedUrls |-> <<>>, extractedYouTubeUrls |-> <<>>, confidence |-> Half]

analyzeQueryFallback(query) ==
  [originalQuery |-> query.text, intent |-> "search", entities |-> JList(<<>>),
   constraints |-> JList(<<>>), queryTypes |-> JList(<<"general_knowledge">>),
   extractedUrls |-> extractUrls(query),
   extractedYouTubeUrls |-> extractYouTubeUrls(query), confidence |-> Half]

analyzeQuery(query, reply) ==
  IF reply.kind # "object"
  THEN analyzeQueryFallback(query)
  ELSE [originalQuery |-> query.text,
        intent |-> IF reply.intent = "" THEN "search" ELSE reply.intent,
        entities |-> OrDefault(reply.entities, JList(<<>>)),
        constraints |-> OrDefault(reply.constraints, JList(<<>>)),
        queryTypes |-> OrDefault(reply.queryTypes, JList(<<"general_knowledge">>)),
        extractedUrls |-> extractUrls(query),
        extractedYouTubeUrls |-> extractYouTubeUrls(query),
        confidence |-> SevenTenths]

\* ------------------------------------- analyzeQuery of queryEnhancer.ts
\* parsedResult.field?.length || 0, for a field that is absent or an array
JLength(j) == IF j.t = "absent" THEN 0 ELSE Len(j.v)

\* the catch block of queryEnhancer.ts
analyzeQueryEnhancerFallback(query) ==
  [originalQuery |-> query.text, intent |-> query.basic.intent,
   entities |-> JList(query.basic.entities),
   constraints |-> JList(query.basic.constraints),
   queryTypes |-> JList(query.basic.queryTypes),
   extractedUrls |-> extractUrls(query),
   extractedYouTubeUrls |-> extractYouTubeUrls(query), confidence |-> Half]

\* analyzeQuery of queryEnhancer.ts; the confidence is in hundredths
analyzeQueryEnhancer(query, reply) ==
  IF reply.kind # "object"
  THEN analyzeQueryEnhancerFallback(query)
  ELSE [originalQuery |-> query.text,
        intent |-> IF reply.intent = "" THEN "search" ELSE reply.intent,
        entities |-> OrDefault(reply.entities, JList(<<>>)),
        constraints |-> OrDefault(reply.constraints, JList(<<>>)),
        queryTypes |-> OrDefault(reply.queryTypes, JList(<<>>)),
        extractedUrls |-> extractUrls(query),
        extractedYouTubeUrls |-> extractYouTubeUrls(query),
        confidence |-> << Min(70 + Min(5 * JLength(reply.entities), 10)
                                 + Min(5 * JLength(reply.queryTypes), 10)
                                 + Min(5 * JLength(reply.constraints), 10), 100), 100 >>]

\* ------------------------------------------------- calculateRelevanceScore
\* Math.max() of no arguments
NegInfinity == -1000000

\* the property reads that raise a TypeError: query.toLowerCase on a value
\* that is no string, .map on queryTypes and .some on entities when the
\* analysis holds a value that is no array
RelevanceThrows(query, analysis) ==
  \/ ~query.isString
  \/ ~IsList(analysis.queryTypes)
  \/ ~IsList(analysis.entities)

Affinity(tool, type) == IF type \in DOMAIN tool.qt THEN tool.qt[type] ELSE 0

RECURSIVE MaxAffinity(_, _)
MaxAffinity(tool, types) ==
  IF types = <<>> THEN NegInfinity
  ELSE Max(Affinity(tool, Head(types)), MaxAffinity(tool, Tail(types)))

UrlCheck(tool, urls) ==
  CASE tool.urlCheck = "any" -> Len(urls) > 0
    [] OTHER -> FALSE

\* in thousandths; defined when ~RelevanceThrows(query, analysis)
calculateRelevanceScore(tool, query, analysis) ==
  LET hasPattern == tool.patterns \cap query.phrases # {}
      typeScore == MaxAffinity(tool, analysis.queryTypes.v)
      hasRelevantEntity == Range(analysis.entities.v) \cap tool.entityTypes # {}
      score == (IF hasPattern THEN 300 ELSE 0)
               + typeScore * 30
               + (IF hasRelevantEntity THEN 200 ELSE 0)
               + (IF UrlCheck(tool, analysis.extractedUrls) THEN 200 ELSE 0)
  IN IF typeScore = NegInfinity THEN NegInfinity ELSE Min(score, 1000)

\* --------------------------------------------------------- selectBestTools
\* Array.prototype.sort((a, b) => b.score - a.score): stable, descending
RECURSIVE InsertByScore(_, _)
InsertByScore(sorted, x) ==
  IF sorted = <<>> THEN <<x>>
  ELSE IF Head(sorted).score >= x.score
       THEN <<Head(sorted)>> \o InsertByScore(Tail(sorted), x)
       ELSE <<x>> \o sorted

RECURSIVE SortByScore(_)
SortByScore(s) ==
  IF s = <<>> THEN <<>>
  ELSE InsertByScore(SortByScore(SubSeq(s, 1, Len(s) - 1)), s[Len(s)])

\* the scored tools left in declaration order
scoredToolsUnsorted(query, analysis) ==
  [i \in DOMAIN tools |->
     [tool |-> tools[i], score |-> calculateRelevanceScore(tools[i], query, analysis)]]

scoredTools(query, analysis) ==
  SortByScore([i \in DOMAIN tools |->
                 [tool |-> tools[i],
                  score |-> calculateRelevanceScore(tools[i], query, analysis)]])

\* selection replies of the reasoning service
SelectReplies ==
  { [kind |-> "throw", selectedTools |-> JAbsent, reasoning |-> JAbsent],
    [kind |-> "null", selectedTools |-> JAbsent, reasoning |-> JAbsent],
    [kind |-> "object", selectedTools |-> JAbsent, reasoning |-> JAbsent],
    [kind |-> "object", selectedTools |-> JString, reasoning |-> JAbsent] }
  \cup { [kind |-> "object", selectedTools |-> JList(ids), reasoning |-> JList(<<"because">>)] :
           ids \in SeqUpTo(ToolIds \cup {UnknownId}, MaxReplyLen) }

FallbackReasoning == <<"Selected based on relevance scores (LLM selection failed)">>

\* the mapping without .filter(Boolean)
FilterBooleanKeepAll(s) == s

\* .map(id => Object.values(tools).find(...)).filter(Boolean)
RECURSIVE FilterBoolean(_)
FilterBoolean(s) ==
  IF s = <<>> THEN <<>>
  ELSE (IF Head(s) = Undefined THEN <<>> ELSE <<Head(s)>>) \o FilterBoolean(Tail(s))

LookupTools(ids) == FilterBoolean([i \in DOMAIN ids |-> FindTool(ids[i])])

selectFallback(query, analysis, maxTools) ==
  LET st == scoredTools(query, analysis)
  IN [threw |-> FALSE,
      selectedTools |-> [i \in 1..Min(maxTools, Len(st)) |-> st[i].tool],
      reasoning |-> FallbackReasoning]

selectBestTools(query, analysis, reply, maxTools) ==
  IF RelevanceThrows(query, analysis)
  THEN [threw |-> TRUE, selectedTools |-> <<>>, reasoning |-> <<>>]
  ELSE IF reply.kind = "object" /\ IsList(reply.selectedTools)
            /\ LookupTools(reply.selectedTools.v) # <<>>
       THEN [threw |-> FALSE,
             selectedTools |-> LookupTools(reply.selectedTools.v),
             reasoning |-> OrDefault(reply.reasoning, JList(<<>>)).v]
       ELSE selectFallback(query, analysis, maxTools)

\* ------------------------------------------------- optimizeQueriesForTools
\* the prompt is built before the try block: .join on a field of the
\* analysis that is no array raises a TypeError that nothing catches
OptimizeThrows(analysis) ==
  \/ ~IsList(analysis.queryTypes)
  \/ ~IsList(analysis.entities)
  \/ ~IsList(analysis.constraints)

\* one entry of the optimizer's map; "undefined" is a key that is not there
NoParams == [query |-> "undefined", url |-> "undefined", videoId |-> "undefined"]
QueryParams(q) == [query |-> q, url |-> "undefined", videoId |-> "undefined"]

\* a fallback entry without the query
FallbackEntryNoQuery(query) == NoParams

\* the entry of the catch block: { query: query, params: {} }
FallbackEntry(query) == QueryParams(query.text)

\* optimizer replies: a failed call or unparsable text, the JSON value
\* null, a JSON string, an object with no entry, an object with an entry
\* for every tool, an object whose entries also carry a url and a videoId
OptimizeReplies == {"throw", "null", "string", "empty", "perTool", "perToolWithUrl"}

\* an optimizer without the per-tool fallback map: it hands back null
\* whatever the reasoning service did
optimizeQueriesForToolsNullOnFailure(query, analysis, newTools, reply) ==
  [threw |-> FALSE, isNull |-> TRUE, entries |-> <<>>]

\* the value optimizeQueriesForTools returns: isNull for the value null,
\* else the entries by tool id (a tool id outside the domain reads as
\* undefined)
optimizeQueriesForTools(query, analysis, newTools, reply) ==
  LET ids == {newTools[i].id : i \in DOMAIN newTools}
  IN CASE reply = "throw" ->
            [threw |-> FALSE, isNull |-> FALSE,
             entries |-> [id \in ids |-> FallbackEntry(query)]]
       [] reply = "null" ->
            [threw |-> FALSE, isNull |-> TRUE, entries |-> <<>>]
       [] reply = "perTool" ->
            [threw |-> FALSE, isNull |-> FALSE,
             entries |-> [id \in ids |-> QueryParams("optimized")]]
       [] reply = "perToolWithUrl" ->
            [threw |-> FALSE, isNull |-> FALSE,
             entries |-> [id \in ids |->
                            [query |-> "optimized", url |-> "https://optimizer.example/x",
                             videoId |-> "optimizerVid"]]]
       [] OTHER ->
            [threw |-> FALSE, isNull |-> FALSE, entries |-> <<>>]

\* ------------------------------------------------------ tool execution
\* payload records; "" is a field that is not there
Item(url, title) == [url |-> url, title |-> title]
NullData == [k |-> "null", items |-> <<>>]
OkData(id) ==
  CASE id = "brave_search" ->
         [k |-> "single", items |-> <<Item("https://example.com/paris", "Paris")>>]
    [] id = "tavily_search" ->
         [k |-> "list", items |-> <<Item("https://example.com/a", "A"),
                                    Item("https://example.com/paris", "")>>]
    [] id = "github_repo_search" ->
         [k |-> "list", items |-> <<Item("", ""), Item("https://example.com/r", "R")>>]
    [] id = "github_code_search" ->
         [k |-> "single", items |-> <<Item("", "")>>]
    [] OTHER ->
         [k |-> "list", items |-> <<Item("https://example.com/c", "C")>>]
\* what the same tool returns once the indexed pages have changed
LaterData == [k |-> "list", items |-> <<Item("https://example.com/new", "New")>>]

\* ToolResult.  conf is metadata.confidence in tenths (hasConf FALSE when the
\* metadata carries none), attempts is metadata.attempts (0 when the metadata
\* carries none), by is the id of the tool
\* whose execution produced the result (not a field of the program: the
\* tools never set metadata.toolId), diag is the confidenceCalculation entry
\* that calculateConfidence attaches, fromCache is metadata.fromCache.
ToolResultOf(tool, success, data, error, hasConf, attempts) ==
  [success |-> success, data |-> data, error |-> error,
   hasConf |-> hasConf, conf |-> IF hasConf THEN tool.conf ELSE 0,
   toolType |-> "", attempts |-> attempts, by |-> tool.id, diag |-> FALSE,
   fromCache |-> FALSE]

\* handleToolSuccess / handleToolError of src/src/tools.ts, and the guard
\* every execute() starts with: the required parameter must be present
ToolExecute(tool, params, outcome) ==
  IF params[tool.needs] = "undefined"
  THEN ToolResultOf(tool, FALSE, NullData, "parameter is required", FALSE, 0)
  ELSE IF outcome = "ok"
       THEN ToolResultOf(tool, TRUE, OkData(tool.id), "", TRUE, 0)
       ELSE IF outcome = "okLater"
            THEN ToolResultOf(tool, TRUE, LaterData, "", TRUE, 0)
            ELSE ToolResultOf(tool, FALSE, NullData, "timeout", FALSE, 0)

\* default of the maxRetries parameter
MaxRetries == 2

\* what tool.execute does on its successive calls: "throw" raises an
\* Error, "throwValue" raises a value that is no Error, "ok", "okLater" and
\* "fail" return a result with success true or false
Throws == {"throw", "throwValue"}
AttemptOutcomes == Throws \cup {"ok", "okLater", "fail"}

\* error instanceof Error ? error.message : 'Unknown error'
ErrorMessage(outcome) ==
  IF outcome = "throw" THEN "thrown" ELSE "Unknown error"

\* executeToolWithRetry: the for loop over attempt = 0..maxRetries; outcomes
\* is what the successive calls of tool.execute do
RECURSIVE RetryFrom(_, _, _, _, _)
RetryFrom(tool, params, outcomes, attempt, maxRetries) ==
  IF attempt > maxRetries
  THEN ToolResultOf(tool, FALSE, NullData, "Unexpected execution flow", FALSE, maxRetries + 1)
  ELSE IF outcomes[attempt + 1] \notin Throws
       THEN ToolExecute(tool, params, outcomes[attempt + 1])
       ELSE IF attempt < maxRetries
            THEN RetryFrom(tool, params, outcomes, attempt + 1, maxRetries)
            ELSE ToolResultOf(tool, FALSE, NullData, ErrorMessage(outcomes[attempt + 1]),
                              FALSE, attempt + 1)

\* the tool.execute calls that loop makes: the outcomes up to the first
\* call that returns, at most maxRetries + 1 of them
RECURSIVE CallsFrom(_, _, _)
CallsFrom(outcomes, attempt, maxRetries) ==
  IF attempt > maxRetries THEN <<>>
  ELSE IF outcomes[attempt + 1] \notin Throws
       THEN <<outcomes[attempt + 1]>>
       ELSE <<outcomes[attempt + 1]>> \o CallsFrom(outcomes, attempt + 1, maxRetries)

executeToolWithRetry(tool, params, outcomes) ==
  RetryFrom(tool, params, outcomes, 0, MaxRetries)

\* the behaviours of one tool during one round
Behaviours == { <<"ok", "ok", "ok">>, <<"fail", "fail", "fail">>,
                <<"throw", "throw", "throw">> }

\* the parameter object of orchestrateResearch: the optimizer's entry,
\* overlaid with the first extracted URL and the id of the first media link
\* a media link is the matched text, the form of the link ("watch" for
\* youtube.com/watch?v=ID, "short" for youtu.be/ID) and the id in it;
\* link.split('v=')[1] is the id of a watch link and undefined for a short
\* link, whose text holds no "v="
VideoIdOf(link) == IF link.form = "watch" THEN link.id ELSE "undefined"
ToolParams(optimized, analysis, id) ==
  LET base == IF id \in DOMAIN optimized.entries THEN optimized.entries[id] ELSE NoParams
      withUrl == IF Len(analysis.extractedUrls) > 0
                 THEN [base EXCEPT !.url = analysis.extractedUrls[1]] ELSE base
  IN IF Len(analysis.extractedYouTubeUrls) > 0
     THEN [withUrl EXCEPT !.videoId = VideoIdOf(analysis.extractedYouTubeUrls[1])]
     ELSE withUrl

\* ---------------------------------------------------------- assessRelevance
\* relevance replies: a failed call or unparsable text, the JSON values
\* null, a number and a string, and arrays of indices
RelevanceLists == { <<>>, <<0>>, <<1>>, <<9, 0, 0>> }
RelevanceReplies ==
  { [kind |-> k, v |-> <<>>] : k \in {"throw", "null", "number", "string"} }
  \cup { [kind |-> "list", v |-> l] : l \in RelevanceLists }

RECURSIVE FilterByIndex(_, _, _)
FilterByIndex(results, i, keep) ==
  IF i > Len(results) THEN <<>>
  ELSE (IF (i - 1) \in keep THEN <<results[i]>> ELSE <<>>)
       \o FilterByIndex(results, i + 1, keep)

\* assessRelevance whose catch block returns no result instead of all
assessRelevanceFailClosed(results, reply) ==
  CASE reply.kind = "number" -> results
    [] reply.kind \in {"throw", "null", "string"} -> <<>>
    [] OTHER -> FilterByIndex(results, 1, Range(reply.v))

\* new Set(JSON.parse(llmResult)) raises for a number (caught: all results
\* are kept), is empty for null, holds characters for a string
assessRelevance(results, reply) ==
  CASE reply.kind \in {"throw", "number"} -> results
    [] reply.kind \in {"null", "string"} -> <<>>
    [] OTHER -> FilterByIndex(results, 1, Range(reply.v))

\* ----------------------------------------------------------- extractSources
RECURSIVE InsertById(_, _)
InsertById(sorted, x) ==
  IF sorted = <<>> THEN <<x>>
  ELSE IF Head(sorted).id <= x.id
       THEN <<Head(sorted)>> \o InsertById(Tail(sorted), x)
       ELSE <<x>> \o sorted

RECURSIVE SortById(_)
SortById(s) ==
  IF s = <<>> THEN <<>>
  ELSE InsertById(SortById(SubSeq(s, 1, Len(s) - 1)), s[Len(s)])

\* the sources of the result at position index (0-based) of the list
\* from is the tool whose execution produced the record (not a field of
\* the program)
RECURSIVE ItemSources(_, _, _, _)
ItemSources(result, tool, index, itemIndex) ==
  IF itemIndex >= Len(result.data.items) THEN <<>>
  ELSE LET item == result.data.items[itemIndex + 1]
       IN (IF item.url # "" \/ item.title # ""
           THEN << [id |-> index * 100 + itemIndex + 1, tool |-> tool.name,
                    url |-> item.url,
                    title |-> IF item.title # "" THEN item.title ELSE item.url,
                    toolType |-> tool.id, from |-> result.by] >>
           ELSE <<>>)
          \o ItemSources(result, tool, index, itemIndex + 1)

RECURSIVE FlatSources(_, _, _)
FlatSources(results, usedTools, index) ==
  IF index >= Len(results) THEN <<>>
  ELSE LET result == results[index + 1]
       IN (IF ~result.success \/ result.data.k = "null" THEN <<>>
           ELSE ItemSources(result, usedTools[index + 1], index, 0))
          \o FlatSources(results, usedTools, index + 1)

extractSources(results, usedTools) == SortById(FlatSources(results, usedTools, 0))

\* -------------------------------------------------------------- analyzeGaps
\* gap replies: hasGaps as returned, followUp "none" (null, absent or the
\* empty text), "text" (a query text) or "number" (a value that is no string)
GapReply(k, g, f) == [kind |-> k, hasGaps |-> g, followUp |-> f]
GapReplies ==
  { GapReply("throw", FALSE, "none"), GapReply("null", FALSE, "none") }
  \cup { GapReply("object", FALSE, "text"), GapReply("object", TRUE, "none"),
         GapReply("object", TRUE, "text"), GapReply("object", TRUE, "number") }

\* analyzeGaps whose catch block asks for another round
analyzeGapsFailOpen(reply) ==
  IF reply.kind = "throw"
  THEN [hasGaps |-> TRUE, followUpQuery |-> "text"]
  ELSE IF reply.kind = "null"
       THEN [hasGaps |-> FALSE, followUpQuery |-> "none"]
       ELSE [hasGaps |-> reply.hasGaps, followUpQuery |-> reply.followUp]

analyzeGaps(reply) ==
  IF reply.kind # "object"
  THEN [hasGaps |-> FALSE, followUpQuery |-> "none"]
  ELSE [hasGaps |-> reply.hasGaps, followUpQuery |-> reply.followUp]

\* analyzeGapsWithBatching of src/src/resultProcessor.ts.  replies holds
\* what the reasoning service answers to the successive analyzeGaps calls:
\* one per batch and then one for the final pass over the representative
\* results.
NumBatches(n, batchSize) == (n + batchSize - 1) \div batchSize

\* the number of analyzeGaps calls made
GapCallsMade(n, batchSize, replies) ==
  IF n <= batchSize THEN 1
  ELSE IF \E i \in 1..NumBatches(n, batchSize) : analyzeGaps(replies[i]).hasGaps
       THEN NumBatches(n, batchSize)
       ELSE NumBatches(n, batchSize) + 1

analyzeGapsWithBatching(currentResults, batchSize, replies) ==
  LET n == Len(currentResults)
      b == NumBatches(n, batchSize)
      batchGapAnalyses == [i \in 1..b |-> analyzeGaps(replies[i])]
  IN IF n <= batchSize THEN analyzeGaps(replies[1])
     ELSE IF \E i \in 1..b : batchGapAnalyses[i].hasGaps
          THEN batchGapAnalyses[CHOOSE i \in 1..b :
                                  /\ batchGapAnalyses[i].hasGaps
                                  /\ \A j \in 1..(i - 1) : ~batchGapAnalyses[j].hasGaps]
          ELSE analyzeGaps(replies[b + 1])

\* best.metadata?.confidence || 0
ConfidenceOrZero(r) == IF r.hasConf THEN r.conf ELSE 0

RECURSIVE ReduceHighest(_, _)
\* batch.reduce((best, current) => currentConfidence > bestConfidence ?
\* current : best, batch[0])
ReduceHighest(best, rest) ==
  IF rest = <<>> THEN best
  ELSE ReduceHighest(IF ConfidenceOrZero(Head(rest)) > ConfidenceOrZero(best)
                     THEN Head(rest) ELSE best,
                     Tail(rest))

\* currentResults.slice(i, i + batchSize) for i = 0, batchSize, ...
GapBatches(currentResults, batchSize) ==
  [k \in 1..NumBatches(Len(currentResults), batchSize) |->
     SubSeq(currentResults, (k - 1) * batchSize + 1,
            Min(k * batchSize, Len(currentResults)))]

\* the highest-confidence result of each batch
RepresentativeResults(currentResults, batchSize) ==
  LET batches == GapBatches(currentResults, batchSize)
  IN [k \in DOMAIN batches |-> ReduceHighest(batches[k][1], batches[k])]

\* every result, the representative ones included
RemainingResultsAll(currentResults, representativeResults) == currentResults

\* currentResults.filter(r => !representativeResults.includes(r))
RemainingResults(currentResults, representativeResults) ==
  SelectSeq(currentResults, LAMBDA r : r \notin Range(representativeResults))

\* remainingResults.sort(() => 0.5 - Math.random()).slice(0,
\* Math.min(batchSize, remainingResults.length)): the head of any
\* permutation of the remaining results
RandomSamples(remainingResults, batchSize) ==
  LET k == Min(batchSize, Len(remainingResults))
  IN { sample \in [1..k -> 1..Len(remainingResults)] :
         \A i, j \in 1..k : i # j => sample[i] # sample[j] }

\* [...representativeResults, ...randomSample], for each sample that can
\* be drawn
FinalGapInputs(currentResults, batchSize) ==
  LET representativeResults == RepresentativeResults(currentResults, batchSize)
      remainingResults == RemainingResults(currentResults, representativeResults)
  IN { representativeResults \o [i \in DOMAIN sample |-> remainingResults[sample[i]]] :
         sample \in RandomSamples(remainingResults, batchSize) }

FollowUpQuery(f) == IF f = "text" THEN QueryFollowUp ELSE QueryNumber

\* -------------------------------------------------------- synthesizeResults
\* An answer text is represented by what calculateConfidence measures on
\* it: words is split(/\s+/).length, citations the number of matches of the
\* five citation patterns, sections, formatting and quality the number of
\* checks (out of four) that hold; empty says whether the text is "";
\* found is the number the fallback text reports (-1 for any other text).
Answer(words, citations, sections, formatting, quality, empty, found) ==
  [words |-> words, citations |-> citations, sections |-> sections,
   formatting |-> formatting, quality |-> quality, empty |-> empty, found |-> found]

\* "Unable to synthesize results. Found N relevant results.": seven words,
\* no citation, no section, no formatting, and of the quality checks only
\* consistentFormatting holds
FallbackAnswer(n) == Answer(7, 0, 0, 0, 1, FALSE, n)

\* texts the reasoning service returns at synthesis: the empty text and a
\* structured answer with citations
SynthTexts ==
  { Answer(1, 0, 0, 0, 1, TRUE, -1),
    Answer(250, 6, 3, 4, 3, FALSE, -1) }
SynthReplies == {[kind |-> "throw", text |-> FallbackAnswer(0)]}
                \cup {[kind |-> "text", text |-> a] : a \in SynthTexts}

synthesizeResults(results, reply) ==
  IF reply.kind = "throw" THEN FallbackAnswer(Len(results)) ELSE reply.text

\* ------------------------------------------------------ exact arithmetic
\* a number is <<numerator, denominator>>; denominator 0 is NaN
NaN == <<0, 0>>
IsNaN(r) == r[2] = 0
Zero == <<0, 1>>
One == <<1, 1>>
RLeq(a, b) == ~IsNaN(a) /\ ~IsNaN(b) /\ a[1] * b[2] <= b[1] * a[2]
InUnitInterval(r) == RLeq(Zero, r) /\ RLeq(r, One)

\* the product of the denominators of a list of weighted terms
RECURSIVE DenProduct(_)
DenProduct(terms) ==
  IF terms = <<>> THEN 1 ELSE Head(terms).x[2] * DenProduct(Tail(terms))

\* the numerator of sum(w_i * x_i) over the denominator DenProduct(terms)
RECURSIVE NumSum(_)
NumSum(terms) ==
  IF terms = <<>> THEN 0
  ELSE Head(terms).w * Head(terms).x[1] * DenProduct(Tail(terms))
       + Head(terms).x[2] * NumSum(Tail(terms))

\* the sum rounded down to a whole number
ClampedWeightedSumFloor(terms) ==
  LET d == 100 * DenProduct(terms)
  IN IF d = 0 THEN NaN ELSE <<NumSum(terms) \div d, 1>>

\* Math.min(sum(w_i / 100 * x_i), 1.0); NaN when a term is NaN
ClampedWeightedSum(terms) ==
  LET d == 100 * DenProduct(terms)
  IN IF d = 0 THEN NaN ELSE <<Min(NumSum(terms), d), d>>

\* ------------------------------------------------------ calculateConfidence
\* the results without the filter on success
SuccessfulKeepAll(results) == results

\* results.filter(r => r.success)
Successful(results) == SelectSeq(results, LAMBDA r : r.success)

\* r.metadata?.confidence || 0.5, in tenths
ResultConfidence(r) == IF r.hasConf /\ r.conf # 0 THEN r.conf ELSE 5

RECURSIVE SumConfidence(_)
SumConfidence(results) ==
  IF results = <<>> THEN 0
  ELSE ResultConfidence(Head(results)) + SumConfidence(Tail(results))

\* the mean of the confidences; 0 / 0 for no result
AvgConfidence(results) == <<SumConfidence(results), 10 * Len(results)>>

\* Math.min((citationCount / Math.max(Math.floor(wordCount / 100), 1)) * 2, 1.0)
CitationDensity(answer) ==
  LET m == Max(answer.words \div 100, 1)
  IN <<Min(2 * answer.citations, m), m>>

ResultUrls(r) == {r.data.items[j].url : j \in DOMAIN r.data.items} \ {""}
UrlsOf(results) == UNION {ResultUrls(results[i]) : i \in DOMAIN results}
ToolTypesOf(results) == {results[i].toolType : i \in DOMAIN results} \ {""}

\* Math.min((uniqueUrls / 2) + (uniqueToolTypes / 3), 1.0)
SourceDiversityFactor(results) ==
  <<Min(3 * Cardinality(UrlsOf(results)) + 2 * Cardinality(ToolTypesOf(results)), 6), 6>>

Term(w, x) == [w |-> w, x |-> x]

\* the weighted sum over the successful results, clamped at 1; the weights
\* are in hundredths
ConfidenceScore(successfulResults, analysis, answer) ==
  ClampedWeightedSum(<<
    Term(15, AvgConfidence(successfulResults)),
    Term(10, analysis.confidence),
    Term(20, CitationDensity(answer)),
    Term(15, <<answer.sections, 4>>),
    Term(15, <<answer.formatting, 4>>),
    Term(15, <<answer.quality, 4>>),
    Term(10, SourceDiversityFactor(successfulResults)) >>)

\* calculateConfidence without its guard for "no successful result"
calculateConfidenceUnguarded(results, analysis, answer) ==
  ConfidenceScore(Successful(results), analysis, answer)

calculateConfidence(results, analysis, answer) ==
  IF Len(Successful(results)) = 0 THEN Zero
  ELSE ConfidenceScore(Successful(results), analysis, answer)

\* the side effect of calculateConfidence: the first successful result gets
\* the confidenceCalculation entry in its metadata
RECURSIVE MarkFirstSuccessful(_)
MarkFirstSuccessful(results) ==
  IF results = <<>> THEN <<>>
  ELSE IF Head(results).success
       THEN <<[Head(results) EXCEPT !.diag = TRUE]>> \o Tail(results)
       ELSE <<Head(results)>> \o MarkFirstSuccessful(Tail(results))

\* ===================================================== orchestrateResearch
VARIABLES
  pc,                    \* the stage the run is in
  query, depth,          \* the arguments of orchestrateResearch
  iteration, currentQuery, allResults, allSources, toolSelectionHistory,
  analysis,
  newTools,              \* ids of the round's tools, in execution order
  optimizedQueries, iterationResults,
  result,                \* the ResearchResult returned
  selection,             \* what the round's selectBestTools call returned
  executed,              \* per round, the ids tool.execute was called for
  calls,                 \* reasoning-service calls made, per stage
  exhausted,             \* the run left the loop for lack of a new tool
  lastGap,               \* what the latest analyzeGaps call returned
  allFailed,             \* so far every reasoning-service call and every
                         \* tool call of the run has failed
  lastCall,              \* the stage that consulted the reasoning service
                         \* last, for each of its calls whether it failed,
                         \* and the arguments of a stage that is run alone
  rounds,                \* per round, whether a tool execution succeeded
                         \* and the results assessRelevance kept
  batching,              \* the assessRelevanceWithBatching call in progress
  cacheConfigured,       \* env.RESEARCH_CACHE is present
  cache,                 \* env.RESEARCH_CACHE: the entry stored under each key
  callers                \* the executeToolWithRetry calls in progress

vars == <<pc, query, depth, iteration, currentQuery, allResults, allSources,
          toolSelectionHistory, analysis, newTools, optimizedQueries,
          iterationResults, result, selection, executed, calls, exhausted, lastGap,
          allFailed, lastCall, rounds, batching, cacheConfigured, cache, callers>>

\* the state of the cached tool execution, which the research loop of
\* orchestrator.ts does not use
retryVars == <<cacheConfigured, cache, callers>>

None == [none |-> TRUE]
NoCalls == [analyze |-> 0, select |-> 0, optimize |-> 0, assess |-> 0,
            gaps |-> 0, synthesize |-> 0]
NoSelection == [ids |-> <<>>, maxTools |-> 0, unknown |-> FALSE]
NoGap == [hasGaps |-> FALSE, followUpQuery |-> "none"]
NoCall == [stage |-> "none", failed |-> <<>>, batchSize |-> 0, reply |-> None]
NoCache == <<>>
NoBatching == [pc |-> "IDLE", results |-> <<>>, batchSize |-> 0, maxParallelBatches |-> 0,
               relevantResults |-> <<>>, batchStart |-> 0, inflight |-> <<>>,
               returned |-> <<>>]
NoCallers == <<>>

\* Math.ceil(depth * 1.5)
MaxToolsFor(d) == (3 * d + 1) \div 2

\* Set.prototype.add for each id, keeping insertion order
RECURSIVE AddAll(_, _)
AddAll(history, ids) ==
  IF ids = <<>> THEN history
  ELSE AddAll(IF Head(ids) \in Range(history) THEN history ELSE Append(history, Head(ids)),
              Tail(ids))

IdsOf(toolSeq) == [i \in DOMAIN toolSeq |-> toolSeq[i].id]

\* the round's tools without the filter against the history
NewToolsOfUnfiltered(ids, history) == ids

\* selectedTools.filter(tool => !toolSelectionHistory.has(tool.id))
NewToolsOf(ids, history) == SelectSeq(ids, LAMBDA id : id \notin Range(history))

\* the selection replies the loop is run against: every list of distinct
\* registered ids in catalog order, lists with an unknown id, a list with
\* a repeated id, and a list of MaxReplyLen ids that cycles through the
\* registry
InOrder(ids) == \A i \in 1..(Len(ids) - 1) :
                  \E a, b \in DOMAIN tools : a < b /\ tools[a].id = ids[i] /\ tools[b].id = ids[i + 1]
LoopSelectLists ==
  { ids \in SeqUpTo(ToolIds, MaxReplyLen) : InOrder(ids) }
  \cup { <<UnknownId>>, <<UnknownId, tools[1].id>>, <<tools[NumTools].id, tools[NumTools].id>>,
         [i \in 1..MaxReplyLen |-> tools[((i - 1) % NumTools) + 1].id] }
LoopSelectReplies ==
  { r \in SelectReplies : ~IsList(r.selectedTools) \/ r.selectedTools.v \in LoopSelectLists }

Init ==
  /\ pc = "ANALYZING"
  /\ query \in Queries
  /\ depth \in 1..MaxDepth
  /\ iteration = 0
  /\ currentQuery = query
  /\ allResults = <<>>
  /\ allSources = <<>>
  /\ toolSelectionHistory = <<>>
  /\ analysis = None
  /\ newTools = <<>>
  /\ optimizedQueries = None
  /\ iterationResults = <<>>
  /\ result = None
  /\ selection = NoSelection
  /\ executed = <<>>
  /\ calls = NoCalls
  /\ exhausted = FALSE
  /\ lastGap = NoGap
  /\ allFailed = TRUE
  /\ lastCall = NoCall
  /\ rounds = <<>>
  /\ batching = NoBatching
  /\ cacheConfigured = FALSE
  /\ cache = NoCache
  /\ callers = NoCallers

\* line 109: the initial query analysis
Analyze ==
  /\ pc = "ANALYZING"
  /\ \E reply \in AnalysisReplies :
       /\ analysis' = analyzeQuery(query, reply)
       /\ allFailed' = (allFailed /\ reply.kind = "throw")
  /\ calls' = [calls EXCEPT !.analyze = @ + 1]
  /\ pc' = "SELECTING"
  /\ UNCHANGED retryVars
  /\ UNCHANGED <<rounds, batching>>
  /\ UNCHANGED <<query, depth, iteration, currentQuery, allResults, allSources,
                 toolSelectionHistory, newTools, optimizedQueries,
                 iterationResults, result, selection, executed, exhausted, lastGap,
                 lastCall>>

\* lines 124-127: with no new tool the loop is left for synthesis
StageAfterSelectNoBreak(fresh) == "OPTIMIZING"

StageAfterSelect(fresh) == IF fresh = <<>> THEN "SYNTHESIZING" ELSE "OPTIMIZING"

\* lines 111-128: the loop test, selectBestTools, the filter against the
\* tools used so far and the exit when no new tool is left
Select ==
  /\ pc = "SELECTING"
  /\ \E reply \in LoopSelectReplies :
       LET sel == selectBestTools(currentQuery, analysis, reply, MaxToolsFor(depth))
           ids == IdsOf(sel.selectedTools)
           fresh == NewToolsOf(ids, toolSelectionHistory)
       IN IF sel.threw
          THEN /\ pc' = "THROWN"
               /\ UNCHANGED <<newTools, toolSelectionHistory, selection, exhausted,
                              calls, allFailed>>
          ELSE /\ selection' = [ids |-> ids, maxTools |-> MaxToolsFor(depth),
                                unknown |-> UnknownId \in Range(reply.selectedTools.v)]
               /\ calls' = [calls EXCEPT !.select = @ + 1]
               /\ allFailed' = (allFailed /\ reply.kind = "throw")
               /\ pc' = StageAfterSelect(fresh)
               /\ exhausted' = (fresh = <<>>)
               /\ newTools' = fresh
               /\ toolSelectionHistory' = AddAll(toolSelectionHistory, fresh)
  /\ UNCHANGED retryVars
  /\ UNCHANGED <<rounds, batching>>
  /\ UNCHANGED <<query, depth, iteration, currentQuery, allResults, allSources,
                 analysis, optimizedQueries, iterationResults, result,
                 executed, lastGap, lastCall>>

\* lines 131-136
Optimize ==
  /\ pc = "OPTIMIZING"
  /\ IF OptimizeThrows(analysis)
     THEN /\ pc' = "THROWN"
          /\ UNCHANGED <<optimizedQueries, calls, allFailed, lastCall>>
     ELSE /\ \E reply \in OptimizeReplies :
               /\ optimizedQueries' =
                    optimizeQueriesForTools(currentQuery, analysis,
                                            [i \in DOMAIN newTools |-> FindTool(newTools[i])], reply)
               /\ allFailed' = (allFailed /\ reply = "throw")
               /\ lastCall' = [NoCall EXCEPT !.stage = "optimize",
                                             !.failed = <<reply = "throw">>]
          /\ calls' = [calls EXCEPT !.optimize = @ + 1]
          /\ pc' = "EXECUTING"
  /\ UNCHANGED retryVars
  /\ UNCHANGED <<rounds, batching>>
  /\ UNCHANGED <<query, depth, iteration, currentQuery, allResults, allSources,
                 toolSelectionHistory, analysis, newTools, iterationResults,
                 result, selection, executed, exhausted, lastGap>>

\* lines 139-150: every tool of the round is run with its parameters; a
\* null map raises in the first callback, before any tool is called
Execute ==
  /\ pc = "EXECUTING"
  /\ IF optimizedQueries.isNull
     THEN /\ pc' = "THROWN"
          /\ UNCHANGED <<iterationResults, executed, allFailed>>
     ELSE /\ \E outcomes \in [DOMAIN newTools -> Behaviours] :
               LET results == [i \in DOMAIN newTools |->
                                 executeToolWithRetry(FindTool(newTools[i]),
                                                      ToolParams(optimizedQueries, analysis, newTools[i]),
                                                      outcomes[i])]
               IN /\ iterationResults' = results
                  /\ allFailed' = (allFailed /\ \A i \in DOMAIN results : ~results[i].success)
          /\ executed' = Append(executed, newTools)
          /\ pc' = "ASSESSING"
  /\ UNCHANGED retryVars
  /\ UNCHANGED <<rounds, batching>>
  /\ UNCHANGED <<query, depth, iteration, currentQuery, allResults, allSources,
                 toolSelectionHistory, analysis, newTools, optimizedQueries,
                 result, selection, calls, exhausted, lastGap, lastCall>>

\* only the results of the latest round are kept
AccumulateLastRound(all, relevantResults) == relevantResults

\* line 156: allResults = [...allResults, ...relevantResults]
Accumulate(all, relevantResults) == all \o relevantResults

\* lines 153-160: relevance assessment, accumulation, source extraction
Assess ==
  /\ pc = "ASSESSING"
  /\ \E reply \in RelevanceReplies :
       LET relevantResults == assessRelevance(iterationResults, reply)
       IN /\ allResults' = Accumulate(allResults, relevantResults)
          /\ allSources' = allSources \o
               extractSources(relevantResults, [i \in DOMAIN newTools |-> FindTool(newTools[i])])
          /\ allFailed' = (allFailed /\ reply.kind = "throw")
          /\ lastCall' = [NoCall EXCEPT !.stage = "assess", !.failed = <<reply.kind = "throw">>]
          /\ rounds' = Append(rounds,
               [succeeded |-> \E i \in DOMAIN iterationResults : iterationResults[i].success,
                accepted |-> relevantResults])
  /\ calls' = [calls EXCEPT !.assess = @ + 1]
  /\ pc' = "GAP_ANALYSIS"
  /\ UNCHANGED retryVars
  /\ UNCHANGED batching
  /\ UNCHANGED <<query, depth, iteration, currentQuery, toolSelectionHistory,
                 analysis, newTools, optimizedQueries, iterationResults, result,
                 selection, executed, exhausted, lastGap>>

\* line 166: the loop is left when no gap or no follow-up query is reported
ShouldStopBoth(g) == ~g.hasGaps /\ g.followUpQuery = "none"

ShouldStop(g) == ~g.hasGaps \/ g.followUpQuery = "none"

\* lines 163-179: gap analysis and the three exits of the loop body
Gaps ==
  /\ pc = "GAP_ANALYSIS"
  /\ \E reply \in GapReplies :
       LET g == analyzeGaps(reply)
       IN /\ lastGap' = g
          /\ allFailed' = (allFailed /\ reply.kind = "throw")
          /\ lastCall' = [NoCall EXCEPT !.stage = "gaps", !.failed = <<reply.kind = "throw">>]
          /\ IF ShouldStop(g)
             THEN /\ pc' = "SYNTHESIZING"
                  /\ UNCHANGED <<currentQuery, iteration>>
             ELSE /\ currentQuery' = FollowUpQuery(g.followUpQuery)
                  /\ iteration' = iteration + 1
                  /\ pc' = IF iteration + 1 >= depth THEN "SYNTHESIZING" ELSE "SELECTING"
  /\ calls' = [calls EXCEPT !.gaps = @ + 1]
  /\ newTools' = <<>>
  /\ optimizedQueries' = None
  /\ iterationResults' = <<>>
  /\ selection' = NoSelection
  /\ UNCHANGED retryVars
  /\ UNCHANGED <<rounds, batching>>
  /\ UNCHANGED <<query, depth, allResults, allSources, toolSelectionHistory,
                 analysis, result, executed, exhausted>>

\* lines 182-202: synthesis, confidence and the returned ResearchResult
Synthesize ==
  /\ pc = "SYNTHESIZING"
  /\ \E reply \in SynthReplies :
       LET answer == synthesizeResults(allResults, reply)
       IN /\ result' =
            [answer |-> answer,
             sources |-> allSources,
             confidence |-> calculateConfidence(allResults, analysis, answer),
             metadata |-> [iterations |-> iteration + 1,
                           totalResults |-> Len(allResults),
                           queryTypes |-> analysis.queryTypes,
                           toolsUsed |-> toolSelectionHistory]]
          /\ allFailed' = (allFailed /\ reply.kind = "throw")
  /\ allResults' = MarkFirstSuccessful(allResults)
  /\ calls' = [calls EXCEPT !.synthesize = @ + 1]
  /\ pc' = "DONE"
  /\ UNCHANGED retryVars
  /\ UNCHANGED <<rounds, batching>>
  /\ UNCHANGED <<query, depth, iteration, currentQuery, allSources,
                 toolSelectionHistory, analysis, newTools, optimizedQueries,
                 iterationResults, selection, executed, exhausted, lastGap,
                 lastCall>>

Next == Analyze \/ Select \/ Optimize \/ Execute \/ Assess \/ Gaps \/ Synthesize

Spec == Init /\ [][Next]_vars

\* every stage is one awaited call that returns or fails, after which the
\* run takes its next step
FairSpec == Spec /\ WF_vars(Next)

\* ================================================ calculateConfidence alone
\* calculateConfidence applied to result lists, analyses and answer texts
\* that need not come out of a run of the loop
MaxConfResults == 2

ConfResult(data, hasConf, conf, toolType) ==
  [success |-> TRUE, data |-> data, error |-> "", hasConf |-> hasConf,
   conf |-> conf, toolType |-> toolType, attempts |-> 0, by |-> "mock",
   diag |-> FALSE, fromCache |-> FALSE]
ConfResults ==
  { ToolResultOf(tools[1], FALSE, NullData, "timeout", FALSE, 0) }
  \cup { ConfResult(d, c[1], c[2], tt) :
           d \in {OkData("brave_search"), OkData("tavily_search")},
           c \in {<<FALSE, 0>>, <<TRUE, 0>>, <<TRUE, 8>>, <<TRUE, 10>>},
           tt \in {"", "web", "code"} }
ConfAnalyses ==
  { analyzeQueryFallback(QueryWhatIs),
    analyzeQuery(QueryWhatIs,
                 AnalysisReply(JList(<<"location">>), JList(<<"general_knowledge">>), JAbsent)) }
ConfAnswers ==
  { Answer(w, c, x[1], x[2], x[3], FALSE, -1) :
      w \in {1, 250}, c \in {0, 6}, x \in {<<0, 0, 0>>, <<0, 0, 1>>, <<4, 4, 4>>} }

ConfInit ==
  /\ pc = "CONFIDENCE"
  /\ query = QueryWhatIs
  /\ depth = 1
  /\ iteration = 0
  /\ currentQuery = query
  /\ allResults \in SeqUpTo(ConfResults, MaxConfResults)
  /\ allSources = <<>>
  /\ toolSelectionHistory = <<>>
  /\ analysis \in ConfAnalyses
  /\ newTools = <<>>
  /\ optimizedQueries = None
  /\ iterationResults = <<>>
  /\ result = None
  /\ selection = NoSelection
  /\ executed = <<>>
  /\ calls = NoCalls
  /\ exhausted = FALSE
  /\ lastGap = NoGap
  /\ allFailed = FALSE
  /\ lastCall = NoCall
  /\ rounds = <<>>
  /\ batching = NoBatching
  /\ cacheConfigured = FALSE
  /\ cache = NoCache
  /\ callers = NoCallers

ScoreConfidence ==
  /\ pc = "CONFIDENCE"
  /\ \E answer \in ConfAnswers :
       result' = [answer |-> answer, sources |-> allSources,
                  confidence |-> calculateConfidence(allResults, analysis, answer),
                  metadata |-> [iterations |-> iteration + 1,
                                totalResults |-> Len(allResults),
                                queryTypes |-> analysis.queryTypes,
                                toolsUsed |-> toolSelectionHistory]]
  /\ allResults' = MarkFirstSuccessful(allResults)
  /\ pc' = "SCORED"
  /\ UNCHANGED retryVars
  /\ UNCHANGED <<rounds, batching>>
  /\ UNCHANGED <<query, depth, iteration, currentQuery, allSources,
                 toolSelectionHistory, analysis, newTools, optimizedQueries,
                 iterationResults, selection, executed, calls, exhausted,
                 lastGap, allFailed, lastCall>>

SpecConfidence == ConfInit /\ [][ScoreConfidence]_vars

\* ============================================ cached executeToolWithRetry
\* executeToolWithRetry of the tool manager that consults the cache
\* (src/unnamed/part_007) with the cache manager (src/unnamed/part_006),
\* one step per awaited call, for several calls in progress at once.
\* number of executeToolWithRetry calls in progress at once
NumCallers == 2
\* largest maxRetries a caller passes
MaxRetriesArg == 3

\* the (tool, params) pairs the calls are made for
Requests ==
  { [tool |-> tools[1].id, params |-> QueryParams("q1")],
    [tool |-> tools[1].id, params |-> QueryParams("q2")] }

\* the key built from the tool id alone
generateCacheKeyToolOnly(toolId, params) == <<toolId, {}>>

\* generateCacheKey: the tool id and the defined parameters, sorted by
\* name (a set of name/value pairs has no order to begin with)
generateCacheKey(toolId, params) ==
  <<toolId, {<<k, params[k]>> : k \in {n \in DOMAIN params : params[n] # "undefined"}}>>

CacheKeys == {generateCacheKey(r.tool, r.params) : r \in Requests}

\* JSON.stringify(result) on put and get(key, 'json') on get
JSONStringify(r) == [json |-> r]
JSONParse(text) == text.json

\* getCachedResult that hands back the entry as it was stored
getCachedResultUnmarked(store, key, getFails) ==
  IF getFails \/ store[key] = None THEN None ELSE JSONParse(store[key])

\* getCachedResult with a cache configured: null (None) when the get
\* raises or finds nothing, else the entry marked fromCache
getCachedResult(store, key, getFails) ==
  IF getFails \/ store[key] = None
  THEN None
  ELSE [JSONParse(store[key]) EXCEPT !.fromCache = TRUE]

\* cacheResult: a put that raises is logged and changes nothing
cacheResult(store, key, r, putFails) ==
  IF ~r.success \/ putFails THEN store
  ELSE [store EXCEPT ![key] = JSONStringify(r)]

\* executeWithCache where a put that raises is not caught
StageAfterPutUncaught(putFails) == IF putFails THEN "THROWN" ELSE "RETURNED"

\* executeWithCache returns the result whatever the put did
StageAfterPut(putFails) == "RETURNED"

\* the retry test off by one
MayRetryOnceMore(attempt, maxRetries) == attempt <= maxRetries

\* if (attempt < maxRetries)
MayRetry(attempt, maxRetries) == attempt < maxRetries

RECURSIVE Pow2(_)
Pow2(n) == IF n = 0 THEN 1 ELSE 2 * Pow2(n - 1)

BaseDelay == 1000

\* the same delay before every retry
BackoffDelayConstant(attempt) == BaseDelay

\* 1000 * Math.pow(2, attempt)
BackoffDelay(attempt) == BaseDelay * Pow2(attempt)

\* the message of the first error instead of the last
FinalErrorOfFirst(thrown) == ErrorMessage(thrown[1])

\* errorMessage of the attempt whose catch block returns
FinalError(thrown) == ErrorMessage(thrown[Len(thrown)])

\* one executeToolWithRetry call: calls holds what the tool.execute calls
\* made so far did, delays the waits made so far, lookup what the cache
\* lookup gave ("none" before or without one)
NewCaller(request, maxRetries, configured) ==
  [pc |-> IF configured THEN "LOOKUP" ELSE "CALL",
   tool |-> request.tool, params |-> request.params, maxRetries |-> maxRetries,
   attempt |-> 0, calls |-> <<>>, delays |-> <<>>, lookup |-> "none",
   result |-> None]

KeyOf(caller) == generateCacheKey(caller.tool, caller.params)

\* the variables of the research loop, which take no part in these calls
loopVars == <<pc, query, depth, iteration, currentQuery, allResults, allSources,
              toolSelectionHistory, analysis, newTools, optimizedQueries,
              iterationResults, result, selection, executed, calls, exhausted,
              lastGap, allFailed, lastCall, rounds, batching>>

LoopIdle ==
  /\ pc = "TOOL_CALLS"
  /\ query = QueryWhatIs
  /\ depth = 1
  /\ iteration = 0
  /\ currentQuery = query
  /\ allResults = <<>>
  /\ allSources = <<>>
  /\ toolSelectionHistory = <<>>
  /\ analysis = None
  /\ newTools = <<>>
  /\ optimizedQueries = None
  /\ iterationResults = <<>>
  /\ result = None
  /\ selection = NoSelection
  /\ executed = <<>>
  /\ calls = NoCalls
  /\ exhausted = FALSE
  /\ lastGap = NoGap
  /\ allFailed = FALSE
  /\ lastCall = NoCall
  /\ rounds = <<>>
  /\ batching = NoBatching

\* one call, with or without a cache, the cache holding any entries
RetryInit ==
  /\ LoopIdle
  /\ cacheConfigured \in BOOLEAN
  /\ cache \in [CacheKeys -> {None, JSONStringify(ToolExecute(tools[1], QueryParams("q1"), "ok"))}]
  /\ ~cacheConfigured => \A k \in CacheKeys : cache[k] = None
  /\ \E r \in Requests, m \in 0..MaxRetriesArg :
       callers = <<NewCaller(r, m, cacheConfigured)>>

\* NumCallers calls at once, each with one retry, sharing a cache that
\* starts empty
CacheInit ==
  /\ LoopIdle
  /\ cacheConfigured = TRUE
  /\ cache = [k \in CacheKeys |-> None]
  /\ \E rs \in [1..NumCallers -> Requests] :
       callers = [c \in 1..NumCallers |-> NewCaller(rs[c], 1, TRUE)]

\* executeWithCache, first half: await getCachedResult
Lookup(c) ==
  /\ callers[c].pc = "LOOKUP"
  /\ \E getFails \in BOOLEAN :
       LET cachedResult == getCachedResult(cache, KeyOf(callers[c]), getFails)
       IN callers' = [callers EXCEPT ![c] =
            IF cachedResult # None
            THEN [@ EXCEPT !.pc = "RETURNED", !.result = cachedResult, !.lookup = "hit"]
            ELSE [@ EXCEPT !.pc = "CALL",
                           !.lookup = IF getFails THEN "failed" ELSE "miss"]]
  /\ UNCHANGED <<cacheConfigured, cache>>
  /\ UNCHANGED loopVars

\* one turn of the for loop: the loop test, await tool.execute, and the
\* catch block
CallTool(c) ==
  /\ callers[c].pc = "CALL"
  /\ LET me == callers[c]
         tool == FindTool(me.tool)
         done(r, made) ==
           [me EXCEPT !.calls = made, !.result = r,
                      !.pc = IF cacheConfigured /\ r.success THEN "STORE" ELSE "RETURNED"]
     IN IF me.attempt > me.maxRetries
        THEN callers' = [callers EXCEPT ![c] =
               done(ToolResultOf(tool, FALSE, NullData, "Unexpected execution flow",
                                 FALSE, me.maxRetries + 1), me.calls)]
        ELSE \E outcome \in AttemptOutcomes :
               LET made == Append(me.calls, outcome)
               IN callers' = [callers EXCEPT ![c] =
                    IF outcome \notin Throws
                    THEN done(ToolExecute(tool, me.params, outcome), made)
                    ELSE IF MayRetry(me.attempt, me.maxRetries)
                         THEN [me EXCEPT !.calls = made, !.pc = "BACKOFF",
                                         !.delays = Append(@, BackoffDelay(me.attempt))]
                         ELSE done(ToolResultOf(tool, FALSE, NullData, FinalError(made),
                                                FALSE, me.attempt + 1), made)]
  /\ UNCHANGED <<cacheConfigured, cache>>
  /\ UNCHANGED loopVars

\* the timer of the wait fires and the loop goes on with attempt + 1
Backoff(c) ==
  /\ callers[c].pc = "BACKOFF"
  /\ callers' = [callers EXCEPT ![c] = [@ EXCEPT !.pc = "CALL", !.attempt = @ + 1]]
  /\ UNCHANGED <<cacheConfigured, cache>>
  /\ UNCHANGED loopVars

\* executeWithCache, second half: await cacheResult, return result
Store(c) ==
  /\ callers[c].pc = "STORE"
  /\ \E putFails \in BOOLEAN :
       /\ cache' = cacheResult(cache, KeyOf(callers[c]), callers[c].result, putFails)
       /\ callers' = [callers EXCEPT ![c] = [@ EXCEPT !.pc = StageAfterPut(putFails)]]
  /\ UNCHANGED cacheConfigured
  /\ UNCHANGED loopVars

\* the time-to-live of an entry runs out
Expire(k) ==
  /\ cache[k] # None
  /\ \E c \in DOMAIN callers : callers[c].pc # "RETURNED"
  /\ cache' = [cache EXCEPT ![k] = None]
  /\ UNCHANGED <<cacheConfigured, callers>>
  /\ UNCHANGED loopVars

RetryNext ==
  \/ \E c \in DOMAIN callers : Lookup(c)
  \/ \E c \in DOMAIN callers : CallTool(c)
  \/ \E c \in DOMAIN callers : Backoff(c)
  \/ \E c \in DOMAIN callers : Store(c)
  \/ \E k \in DOMAIN cache : Expire(k)

SpecRetry == RetryInit /\ [][RetryNext]_vars

SpecCache == CacheInit /\ [][RetryNext]_vars

\* ================================================== selectBestTools alone
\* selectBestTools applied to queries, analyses, selection replies and
\* values of maxTools that need not come out of a run of the loop
SelectQueries == {QueryWhatIs, QueryFollowUp, QueryPlain}
SelectAnalysisReplies ==
  { [kind |-> "throw", intent |-> "", entities |-> JAbsent, queryTypes |-> JAbsent, constraints |-> JAbsent],
    AnalysisReply(JList(<<"location">>), JList(<<"general_knowledge">>), JAbsent),
    AnalysisReply(JAbsent, JList(<<"code_related">>), JAbsent),
    AnalysisReply(JList(<<>>), JList(<<"general_knowledge">>), JAbsent),
    AnalysisReply(JList(<<>>), JList(<<>>), JAbsent) }

SelectInit ==
  /\ pc = "SELECT_ALONE"
  /\ query \in SelectQueries
  /\ depth = 1
  /\ iteration = 0
  /\ currentQuery = query
  /\ allResults = <<>>
  /\ allSources = <<>>
  /\ toolSelectionHistory = <<>>
  /\ \E a \in SelectAnalysisReplies : analysis = analyzeQuery(query, a)
  /\ newTools = <<>>
  /\ optimizedQueries = None
  /\ iterationResults = <<>>
  /\ result = None
  /\ \E m \in 1..(NumTools + 1) : selection = [NoSelection EXCEPT !.maxTools = m]
  /\ executed = <<>>
  /\ calls = NoCalls
  /\ exhausted = FALSE
  /\ lastGap = NoGap
  /\ allFailed = FALSE
  /\ \E r \in SelectReplies : lastCall = [NoCall EXCEPT !.reply = r]
  /\ rounds = <<>>
  /\ batching = NoBatching
  /\ cacheConfigured = FALSE
  /\ cache = NoCache
  /\ callers = NoCallers

SelectAlone ==
  /\ pc = "SELECT_ALONE"
  /\ LET sel == selectBestTools(currentQuery, analysis, lastCall.reply, selection.maxTools)
     IN /\ result' = [selectedTools |-> IdsOf(sel.selectedTools), reasoning |-> sel.reasoning]
        /\ selection' = [selection EXCEPT !.ids = IdsOf(sel.selectedTools)]
  /\ lastCall' = [lastCall EXCEPT !.stage = "select", !.failed = <<lastCall.reply.kind = "throw">>]
  /\ calls' = [calls EXCEPT !.select = @ + 1]
  /\ pc' = "SELECTED"
  /\ UNCHANGED retryVars
  /\ UNCHANGED <<rounds, batching>>
  /\ UNCHANGED <<query, depth, iteration, currentQuery, allResults, allSources,
                 toolSelectionHistory, analysis, newTools, optimizedQueries,
                 iterationResults, executed, exhausted, lastGap, allFailed>>

SpecSelect == SelectInit /\ [][SelectAlone]_vars

\* =========================================== analyzeGapsWithBatching alone
\* analyzeGapsWithBatching applied to result lists of every length up to
\* MaxGapResults with every batch size up to MaxBatchSize
MaxGapResults == 4
MaxBatchSize == 2

\* the results handed over are separate objects: the i-th is told from the
\* others by its attempts, and it carries the confidence of its tool or none
GapResultKinds == {"rated", "bare"}
GapResult(kind, i) ==
  ToolResultOf(tools[1], TRUE, OkData(tools[1].id), "", kind = "rated", i)

GapInit ==
  /\ pc = "GAP_BATCHES"
  /\ query = QueryWhatIs
  /\ depth = 1
  /\ iteration = 0
  /\ currentQuery = query
  /\ \E n \in 0..MaxGapResults :
       \E kinds \in [1..n -> GapResultKinds] :
         allResults = [i \in 1..n |-> GapResult(kinds[i], i)]
  /\ allSources = <<>>
  /\ toolSelectionHistory = <<>>
  /\ analysis = analyzeQueryFallback(QueryWhatIs)
  /\ newTools = <<>>
  /\ optimizedQueries = None
  /\ iterationResults = <<>>
  /\ result = None
  /\ selection = NoSelection
  /\ executed = <<>>
  /\ calls = NoCalls
  /\ exhausted = FALSE
  /\ lastGap = NoGap
  /\ allFailed = FALSE
  /\ \E b \in 1..MaxBatchSize : lastCall = [NoCall EXCEPT !.batchSize = b]
  /\ rounds = <<>>
  /\ batching = NoBatching
  /\ cacheConfigured = FALSE
  /\ cache = NoCache
  /\ callers = NoCallers

AnalyzeGapsBatched ==
  /\ pc = "GAP_BATCHES"
  /\ \E replies \in [1..(NumBatches(Len(allResults), lastCall.batchSize) + 1) -> GapReplies] :
       LET made == GapCallsMade(Len(allResults), lastCall.batchSize, replies)
       IN /\ lastGap' = analyzeGapsWithBatching(allResults, lastCall.batchSize, replies)
          /\ lastCall' = [lastCall EXCEPT !.stage = "gapsBatched",
                            !.failed = [i \in 1..made |-> replies[i].kind = "throw"],
                            !.reply = [reported |-> [i \in 1..made |-> analyzeGaps(replies[i]).hasGaps]]]
          /\ iterationResults' \in
               IF Len(allResults) > lastCall.batchSize
                  /\ made > NumBatches(Len(allResults), lastCall.batchSize)
               THEN FinalGapInputs(allResults, lastCall.batchSize)
               ELSE {<<>>}
          /\ calls' = [calls EXCEPT !.gaps = @ + made]
  /\ pc' = "GAPS_ANALYZED"
  /\ UNCHANGED retryVars
  /\ UNCHANGED <<rounds, batching>>
  /\ UNCHANGED <<query, depth, iteration, currentQuery, allResults, allSources,
                 toolSelectionHistory, analysis, newTools, optimizedQueries,
                 result, selection, executed, exhausted, allFailed>>

\* the research loop and, beside it, the batched gap analysis
SpecGaps == (Init \/ GapInit) /\ [][Next \/ AnalyzeGapsBatched]_vars

\* ======================================================= analyzeQuery alone
\* analyzeQuery of src/src/queryOptimizer.ts and analyzeQuery of
\* src/src/queryEnhancer.ts applied to the same query and the same reply
\* of the reasoning service.  basic holds what the pattern functions of
\* queryEnhancer.ts (the intent tests, extractEntitiesBasic,
\* extractConstraintsBasic, identifyQueryTypesBasic) find in the text.
AnalyzeQueries ==
  { [text |-> "What is the capital of France?", isString |-> TRUE,
     phrases |-> {"what is"}, urls |-> <<>>, yt |-> <<>>,
     basic |-> [intent |-> "explain", entities |-> <<"api">>, constraints |-> <<>>,
                queryTypes |-> <<"technical", "general_knowledge">>]],
    [text |-> "quantum entanglement", isString |-> TRUE,
     phrases |-> {}, urls |-> <<>>, yt |-> <<>>,
     basic |-> [intent |-> "search", entities |-> <<>>, constraints |-> <<>>,
                queryTypes |-> <<>>]],
    [text |-> "summarize https://example.com/post", isString |-> TRUE,
     phrases |-> {}, urls |-> <<"https://example.com/post">>, yt |-> <<>>,
     basic |-> [intent |-> "search", entities |-> <<>>, constraints |-> <<>>,
                queryTypes |-> <<>>]],
    [text |-> "watch https://www.youtube.com/watch?v=abc123", isString |-> TRUE,
     phrases |-> {"youtube"}, urls |-> <<"https://www.youtube.com/watch?v=abc123">>,
     yt |-> <<[link |-> "https://www.youtube.com/watch?v=abc123", form |-> "watch",
               id |-> "abc123"]>>,
     basic |-> [intent |-> "search", entities |-> <<"youtube">>, constraints |-> <<>>,
                queryTypes |-> <<"video_content">>]],
    [text |-> "see https://youtu.be/abc123", isString |-> TRUE,
     phrases |-> {}, urls |-> <<"https://youtu.be/abc123">>,
     yt |-> <<[link |-> "https://youtu.be/abc123", form |-> "short", id |-> "abc123"]>>,
     basic |-> [intent |-> "search", entities |-> <<>>, constraints |-> <<>>,
                queryTypes |-> <<>>]] }

\* replies to the analysis prompt: a failed call, unparsable text or the
\* JSON value null, and objects whose three lists are absent or arrays
AnalyzeAloneReplies ==
  { [kind |-> k, intent |-> "", entities |-> JAbsent, queryTypes |-> JAbsent,
     constraints |-> JAbsent] : k \in {"throw", "null"} }
  \cup { AnalysisReply(e, t, c) :
           e \in {JAbsent, JList(<<"location">>), JList(<<"a", "b", "c">>)},
           t \in {JAbsent, JList(<<>>), JList(<<"technical">>)},
           c \in {JAbsent, JList(<<"recent">>)} }

AnalyzeInit ==
  /\ pc = "ANALYZE_ALONE"
  /\ query \in AnalyzeQueries
  /\ depth = 1
  /\ iteration = 0
  /\ currentQuery = query
  /\ allResults = <<>>
  /\ allSources = <<>>
  /\ toolSelectionHistory = <<>>
  /\ analysis = None
  /\ newTools = <<>>
  /\ optimizedQueries = None
  /\ iterationResults = <<>>
  /\ result = None
  /\ selection = NoSelection
  /\ executed = <<>>
  /\ calls = NoCalls
  /\ exhausted = FALSE
  /\ lastGap = NoGap
  /\ allFailed = FALSE
  /\ \E r \in AnalyzeAloneReplies : lastCall = [NoCall EXCEPT !.reply = r]
  /\ rounds = <<>>
  /\ batching = NoBatching
  /\ cacheConfigured = FALSE
  /\ cache = NoCache
  /\ callers = NoCallers

\* both analyzeQuery functions are called; analysis holds what
\* queryOptimizer.ts returns and result what queryEnhancer.ts returns
AnalyzeAlone ==
  /\ pc = "ANALYZE_ALONE"
  /\ analysis' = analyzeQuery(query, lastCall.reply)
  /\ result' = analyzeQueryEnhancer(query, lastCall.reply)
  /\ lastCall' = [lastCall EXCEPT !.stage = "analyze",
                                  !.failed = <<lastCall.reply.kind # "object">>]
  /\ calls' = [calls EXCEPT !.analyze = @ + 2]
  /\ pc' = "ANALYZED"
  /\ UNCHANGED retryVars
  /\ UNCHANGED <<rounds, batching>>
  /\ UNCHANGED <<query, depth, iteration, currentQuery, allResults, allSources,
                 toolSelectionHistory, newTools, optimizedQueries,
                 iterationResults, selection, executed, exhausted, lastGap, allFailed>>

SpecAnalyze == AnalyzeInit /\ [][AnalyzeAlone]_vars

\* ================================================ the parameters of a round
\* the parameter objects that orchestrateResearch builds for the tools of a
\* round (lines 139-148), for queries with and without links, every list
\* of tools and every reply of the optimizer
ParamsInit ==
  /\ pc = "PARAMS_ALONE"
  /\ query \in AnalyzeQueries
  /\ depth = 1
  /\ iteration = 0
  /\ currentQuery = query
  /\ allResults = <<>>
  /\ allSources = <<>>
  /\ toolSelectionHistory = <<>>
  /\ analysis = analyzeQueryFallback(query)
  /\ newTools \in SeqUpTo(ToolIds, NumTools) \ {<<>>}
  /\ optimizedQueries = None
  /\ iterationResults = <<>>
  /\ result = None
  /\ selection = NoSelection
  /\ executed = <<>>
  /\ calls = NoCalls
  /\ exhausted = FALSE
  /\ lastGap = NoGap
  /\ allFailed = FALSE
  /\ lastCall = NoCall
  /\ rounds = <<>>
  /\ batching = NoBatching
  /\ cacheConfigured = FALSE
  /\ cache = NoCache
  /\ callers = NoCallers

\* optimizeQueriesForTools and the parameter object of each tool; result
\* holds the objects handed to executeToolWithRetry
BuildParams ==
  /\ pc = "PARAMS_ALONE"
  /\ \E reply \in OptimizeReplies :
       LET optimized == optimizeQueriesForTools(currentQuery, analysis,
                          [i \in DOMAIN newTools |-> FindTool(newTools[i])], reply)
       IN /\ optimizedQueries' = optimized
          /\ IF optimized.isNull
             THEN pc' = "THROWN" /\ UNCHANGED result
             ELSE /\ pc' = "PARAMS_BUILT"
                  /\ result' = [i \in DOMAIN newTools |->
                                  ToolParams(optimized, analysis, newTools[i])]
  /\ calls' = [calls EXCEPT !.optimize = @ + 1]
  /\ UNCHANGED retryVars
  /\ UNCHANGED <<rounds, batching>>
  /\ UNCHANGED <<query, depth, iteration, currentQuery, allResults, allSources,
                 toolSelectionHistory, analysis, newTools, iterationResults,
                 selection, executed, exhausted, lastGap, allFailed, lastCall>>

SpecParams == ParamsInit /\ [][BuildParams]_vars

\* ========================================================== one round, by steps
\* lines 138-156 of orchestrateResearch with the tool calls of the round in
\* progress at the same time: the callbacks of newTools.map start every
\* call, each call runs its retry loop, Promise.all resolves when all of
\* them have returned, and then the results are assessed and accumulated
RoundInit ==
  /\ pc = "ROUND_START"
  /\ query = QueryWhatIs
  /\ depth = 1
  /\ iteration = 0
  /\ currentQuery = query
  /\ allResults = <<>>
  /\ allSources = <<>>
  /\ toolSelectionHistory = <<>>
  /\ analysis = analyzeQueryFallback(QueryWhatIs)
  /\ newTools \in SeqUpTo(ToolIds, NumTools) \ {<<>>}
  /\ optimizedQueries =
       optimizeQueriesForTools(QueryWhatIs, analysis,
                               [i \in DOMAIN newTools |-> FindTool(newTools[i])], "throw")
  /\ iterationResults = <<>>
  /\ result = None
  /\ selection = NoSelection
  /\ executed = <<>>
  /\ calls = NoCalls
  /\ exhausted = FALSE
  /\ lastGap = NoGap
  /\ allFailed = FALSE
  /\ lastCall = NoCall
  /\ rounds = <<>>
  /\ batching = NoBatching
  /\ cacheConfigured = FALSE
  /\ cache = NoCache
  /\ callers = NoCallers

\* newTools.map(tool => executeToolWithRetry(...)): every callback runs up
\* to the first await of its call before map returns
StartRound ==
  /\ pc = "ROUND_START"
  /\ callers' = [i \in DOMAIN newTools |->
                   NewCaller([tool |-> newTools[i],
                              params |-> ToolParams(optimizedQueries, analysis, newTools[i])],
                             MaxRetries, FALSE)]
  /\ executed' = Append(executed, newTools)
  /\ pc' = "ROUND_RUNNING"
  /\ UNCHANGED <<cacheConfigured, cache, rounds, batching>>
  /\ UNCHANGED <<query, depth, iteration, currentQuery, allResults, allSources,
                 toolSelectionHistory, analysis, newTools, optimizedQueries,
                 iterationResults, result, selection, calls, exhausted, lastGap,
                 allFailed, lastCall>>

\* the promise of the first call that returns is taken for the round's
AnySettled(cs) == \E c \in DOMAIN cs : cs[c].pc = "RETURNED"

\* Promise.all: resolved when every promise of the list is resolved
AllSettled(cs) == \A c \in DOMAIN cs : cs[c].pc = "RETURNED"

\* lines 139-160, after the await of Promise.all
AssessRound ==
  /\ pc = "ROUND_RUNNING"
  /\ AllSettled(callers)
  /\ \E reply \in RelevanceReplies :
       LET results == [i \in DOMAIN callers |->
                         IF callers[i].pc = "RETURNED" THEN callers[i].result ELSE None]
           relevantResults == assessRelevance(results, reply)
       IN /\ iterationResults' = results
          /\ allResults' = Accumulate(allResults, relevantResults)
          /\ lastCall' = [NoCall EXCEPT !.stage = "assess", !.failed = <<reply.kind = "throw">>]
          /\ rounds' = Append(rounds,
               [succeeded |-> \E i \in DOMAIN results : results[i] # None /\ results[i].success,
                accepted |-> relevantResults])
  /\ calls' = [calls EXCEPT !.assess = @ + 1]
  /\ pc' = "ROUND_ASSESSED"
  /\ UNCHANGED retryVars
  /\ UNCHANGED batching
  /\ UNCHANGED <<query, depth, iteration, currentQuery, allSources,
                 toolSelectionHistory, analysis, newTools, optimizedQueries,
                 result, selection, executed, exhausted, lastGap, allFailed>>

RoundNext ==
  \/ StartRound
  \/ \E c \in DOMAIN callers : CallTool(c)
  \/ \E c \in DOMAIN callers : Backoff(c)
  \/ AssessRound

SpecRound == RoundInit /\ [][RoundNext]_vars

\* ============================== assessRelevanceWithBatching, by steps
\* assessRelevance and assessRelevanceWithBatching of
\* src/src/resultProcessor.ts, applied to result lists of every length up
\* to MaxRelResults with every batch size up to MaxRelBatch and every
\* group width up to MaxParallel, and to two lists longer than the cap of
\* the final batch size; beside them, assessRelevance of orchestrator.ts
\* applied to the same list
MaxRelResults == 5
MaxRelBatch == 2
MaxParallel == 2

\* Math.min(relevantResults.length, 10)
FinalBatchCap == 10

\* what generateArray resolves to: it rejects when the call fails or when
\* the reply is not an array of non-negative integers, else it is the array
ArrayLists == { <<>>, <<0>>, <<1, 0>>, <<2, 2, 0>>, <<7>> }
ArrayReplies ==
  {[kind |-> "throw", v |-> <<>>]} \cup {[kind |-> "list", v |-> l] : l \in ArrayLists}

\* the results the reply names, in the order of the reply
resultProcessor_assessRelevanceByReply(results, reply) ==
  IF reply.kind = "throw" THEN results
  ELSE [k \in DOMAIN reply.v |->
          IF reply.v[k] + 1 \in DOMAIN results THEN results[reply.v[k] + 1] ELSE None]

\* results.filter((_, i) => relevantIndices.has(i)), and every result when
\* generateArray rejects
resultProcessor_assessRelevance(results, reply) ==
  IF reply.kind = "throw" THEN results
  ELSE FilterByIndex(results, 1, Range(reply.v))

\* the replies of the reasoning service to assessRelevance of
\* orchestrator.ts, with one that names two results out of order
RelevanceRepliesWide == RelevanceReplies \cup {[kind |-> "list", v |-> <<1, 0>>]}

RelevanceInput(n) ==
  [i \in 1..n |-> ToolResultOf(tools[1], TRUE, OkData(tools[1].id), "", TRUE, i)]

BatchingInputs ==
  { [n |-> n, batchSize |-> b] : n \in 0..MaxRelResults, b \in 1..MaxRelBatch }
  \cup { [n |-> FinalBatchCap + 1, batchSize |-> FinalBatchCap \div 2],
         [n |-> 2 * FinalBatchCap + 1, batchSize |-> FinalBatchCap] }

BatchInit ==
  /\ pc = "RELEVANCE_ALONE"
  /\ query = QueryWhatIs
  /\ depth = 1
  /\ iteration = 0
  /\ currentQuery = query
  /\ allResults = <<>>
  /\ allSources = <<>>
  /\ toolSelectionHistory = <<>>
  /\ analysis = analyzeQueryFallback(QueryWhatIs)
  /\ newTools = <<>>
  /\ optimizedQueries = None
  /\ \E in \in BatchingInputs, m \in 1..MaxParallel :
       /\ iterationResults = RelevanceInput(in.n)
       /\ batching = [NoBatching EXCEPT !.pc = "ENTRY", !.results = iterationResults,
                        !.batchSize = in.batchSize, !.maxParallelBatches = m]
  /\ result = None
  /\ selection = NoSelection
  /\ executed = <<>>
  /\ calls = NoCalls
  /\ exhausted = FALSE
  /\ lastGap = NoGap
  /\ allFailed = FALSE
  /\ lastCall = NoCall
  /\ rounds = <<>>
  /\ cacheConfigured = FALSE
  /\ cache = NoCache
  /\ callers = NoCallers

\* everything but the assessRelevanceWithBatching call in progress
besideBatching ==
  <<pc, query, depth, iteration, currentQuery, allResults, allSources,
    toolSelectionHistory, analysis, newTools, optimizedQueries, iterationResults,
    result, selection, executed, calls, exhausted, lastGap, allFailed, lastCall,
    rounds, cacheConfigured, cache, callers>>

\* an assessRelevance call that has been made and has not resolved
PendingCall(batch) == [batch |-> batch, done |-> FALSE, out |-> <<>>]

\* lines 62-70: a list no longer than the batch size goes to one
\* assessRelevance call, a longer one to the loop over the groups
EnterBatching ==
  /\ batching.pc = "ENTRY"
  /\ batching' =
       IF Len(batching.results) <= batching.batchSize
       THEN [batching EXCEPT !.pc = "SINGLE", !.inflight = <<PendingCall(batching.results)>>]
       ELSE [batching EXCEPT !.pc = "LOOP", !.relevantResults = <<>>, !.batchStart = 0]
  /\ UNCHANGED besideBatching

\* every batch that is left, in one group
BatchesToProcessAll(maxParallelBatches, totalBatches, batchStart) ==
  totalBatches - batchStart

\* Math.min(maxParallelBatches, totalBatches - batchStart)
BatchesToProcess(maxParallelBatches, totalBatches, batchStart) ==
  Min(maxParallelBatches, totalBatches - batchStart)

\* results.slice(startIndex, endIndex) of the i-th batch of the group
BatchSlice(results, batchSize, batchStart, i) ==
  LET startIndex == (batchStart + i) * batchSize
      endIndex == Min(startIndex + batchSize, Len(results))
  IN SubSeq(results, startIndex + 1, endIndex)

\* lines 73-83: the calls of one group are made
StartGroup ==
  /\ batching.pc = "LOOP"
  /\ LET totalBatches == NumBatches(Len(batching.results), batching.batchSize)
     IN /\ batching.batchStart < totalBatches
        /\ batching' = [batching EXCEPT
             !.pc = "AWAIT",
             !.inflight =
               [k \in 1..BatchesToProcess(batching.maxParallelBatches, totalBatches,
                                          batching.batchStart) |->
                  PendingCall(BatchSlice(batching.results, batching.batchSize,
                                         batching.batchStart, k - 1))]]
  /\ UNCHANGED besideBatching

\* one assessRelevance call resolves
BatchAssessed(k) ==
  /\ batching.pc \in {"AWAIT", "SINGLE", "FINAL"}
  /\ ~batching.inflight[k].done
  /\ \E reply \in ArrayReplies :
       batching' = [batching EXCEPT
         !.inflight[k] = [batch |-> @.batch, done |-> TRUE,
                          out |-> resultProcessor_assessRelevance(@.batch, reply)]]
  /\ UNCHANGED besideBatching

RECURSIVE PushBatches(_, _)
\* batchResults.forEach(relevantBatch => relevantResults.push(...relevantBatch))
PushBatches(relevantResults, batchResults) ==
  IF batchResults = <<>> THEN relevantResults
  ELSE PushBatches(relevantResults \o Head(batchResults).out, Tail(batchResults))

\* lines 86-91: Promise.all of the group resolves, what the batches kept
\* is collected in batch order and the loop moves on to the next group
CollectGroup ==
  /\ batching.pc = "AWAIT"
  /\ \A k \in DOMAIN batching.inflight : batching.inflight[k].done
  /\ batching' = [batching EXCEPT
       !.pc = "LOOP",
       !.relevantResults = PushBatches(@, batching.inflight),
       !.batchStart = @ + batching.maxParallelBatches,
       !.inflight = <<>>]
  /\ UNCHANGED besideBatching

\* lines 94-107, after the loop: more than 2*batchSize results go to a
\* final pass, which is one assessRelevance call when they fit the final
\* batch size and assessRelevanceWithBatching again when they do not
AfterBatches ==
  /\ batching.pc = "LOOP"
  /\ ~(batching.batchStart < NumBatches(Len(batching.results), batching.batchSize))
  /\ LET relevantResults == batching.relevantResults
         finalBatchSize == Min(Len(relevantResults), FinalBatchCap)
     IN batching' =
          IF Len(relevantResults) > batching.batchSize * 2
          THEN IF Len(relevantResults) > finalBatchSize
               THEN [batching EXCEPT !.pc = "ENTRY", !.results = relevantResults,
                       !.batchSize = finalBatchSize, !.relevantResults = <<>>,
                       !.batchStart = 0]
               ELSE [batching EXCEPT !.pc = "FINAL",
                       !.inflight = <<PendingCall(relevantResults)>>]
          ELSE [batching EXCEPT !.pc = "DONE", !.returned = relevantResults]
  /\ UNCHANGED besideBatching

\* lines 64 and 103: what the single call resolved to is returned
ReturnAssessed ==
  /\ batching.pc \in {"SINGLE", "FINAL"}
  /\ batching.inflight[1].done
  /\ batching' = [batching EXCEPT !.pc = "DONE", !.returned = batching.inflight[1].out,
                    !.inflight = <<>>]
  /\ UNCHANGED besideBatching

\* assessRelevance of orchestrator.ts on the same list
AssessAlone ==
  /\ pc = "RELEVANCE_ALONE"
  /\ \E reply \in RelevanceRepliesWide :
       /\ allResults' = assessRelevance(iterationResults, reply)
       /\ lastCall' = [NoCall EXCEPT !.stage = "assess", !.failed = <<reply.kind = "throw">>,
                         !.reply = reply]
  /\ pc' = "RELEVANCE_ASSESSED"
  /\ UNCHANGED <<batching, rounds>>
  /\ UNCHANGED retryVars
  /\ UNCHANGED <<query, depth, iteration, currentQuery, allSources,
                 toolSelectionHistory, analysis, newTools, optimizedQueries,
                 iterationResults, result, selection, executed, calls, exhausted,
                 lastGap, allFailed>>

BatchNext ==
  \/ EnterBatching
  \/ StartGroup
  \/ \E k \in DOMAIN batching.inflight : BatchAssessed(k)
  \/ CollectGroup
  \/ AfterBatches
  \/ ReturnAssessed
  \/ AssessAlone

SpecBatch == BatchInit /\ [][BatchNext]_vars

\* every step of the function that can be taken is taken in the end
FairSpecBatch == SpecBatch /\ WF_vars(BatchNext)

\* ==================================================== generateCacheKey alone
\* generateCacheKey of src/unnamed/part_006 applied to parameter objects
\* given as Object.entries lists them: the keys in insertion order, each
\* once, with its value.  The keys are the parameter names the tools read,
\* in the order localeCompare puts them; a value is a text or undefined.
ParamKeyNames == <<"query", "url", "videoId">>
ParamValues == {"undefined", "q1", "q2"}

\* the parameter objects: every choice of keys, in every insertion order,
\* with every value
ParamObjects ==
  { entries \in SeqUpTo(Range(ParamKeyNames) \X ParamValues, Len(ParamKeyNames)) :
      \A i, j \in DOMAIN entries : i # j => entries[i][1] # entries[j][1] }

\* keyA.localeCompare(keyB) < 0, = 0, > 0
KeyRank(key) == CHOOSE i \in DOMAIN ParamKeyNames : ParamKeyNames[i] = key
localeCompare(keyA, keyB) == KeyRank(keyA) - KeyRank(keyB)

RECURSIVE InsertByKey(_, _)
InsertByKey(sorted, entry) ==
  IF sorted = <<>> THEN <<entry>>
  ELSE IF localeCompare(Head(sorted)[1], entry[1]) <= 0
       THEN <<Head(sorted)>> \o InsertByKey(Tail(sorted), entry)
       ELSE <<entry>> \o sorted

RECURSIVE SortByKeyFrom(_, _)
SortByKeyFrom(sorted, entries) ==
  IF entries = <<>> THEN sorted
  ELSE SortByKeyFrom(InsertByKey(sorted, Head(entries)), Tail(entries))

\* the entries as they come, unsorted
SortedParamsUnsorted(entries) ==
  SelectSeq(entries, LAMBDA e : e[2] # "undefined")

\* Object.entries(params).filter(([_, value]) => value !== undefined)
\*   .sort(([keyA], [keyB]) => keyA.localeCompare(keyB)), a stable sort
SortedParams(entries) ==
  SortByKeyFrom(<<>>, SelectSeq(entries, LAMBDA e : e[2] # "undefined"))

RECURSIVE JoinParams(_)
\* sortedParams.map(([key, value]) => `${key}:${JSON.stringify(value)}`)
\*   .join(','), as the list of the pieces of the text
JoinParams(sortedParams) ==
  IF sortedParams = <<>> THEN <<>>
  ELSE <<Head(sortedParams)[1], ":", "\"", Head(sortedParams)[2], "\"">>
       \o (IF Len(sortedParams) > 1 THEN <<",">> ELSE <<>>)
       \o JoinParams(Tail(sortedParams))

\* `${toolId}:${paramsStr}`
generateCacheKeyText(toolId, entries) ==
  <<toolId, ":">> \o JoinParams(SortedParams(entries))

KeyInit ==
  /\ pc = "KEYS_ALONE"
  /\ query = QueryWhatIs
  /\ depth = 1
  /\ iteration = 0
  /\ currentQuery = query
  /\ allResults = <<>>
  /\ allSources = <<>>
  /\ toolSelectionHistory = <<>>
  /\ analysis = analyzeQueryFallback(QueryWhatIs)
  /\ newTools = <<>>
  /\ optimizedQueries = None
  /\ iterationResults = <<>>
  /\ result = None
  /\ selection = NoSelection
  /\ executed = <<>>
  /\ calls = NoCalls
  /\ exhausted = FALSE
  /\ lastGap = NoGap
  /\ allFailed = FALSE
  /\ \E first \in ParamObjects, second \in ParamObjects :
       lastCall = [NoCall EXCEPT !.reply = [first |-> first, second |-> second]]
  /\ rounds = <<>>
  /\ batching = NoBatching
  /\ cacheConfigured = FALSE
  /\ cache = NoCache
  /\ callers = NoCallers

\* generateCacheKey for the first tool and each of the two objects
GenerateKeys ==
  /\ pc = "KEYS_ALONE"
  /\ result' = [first |-> generateCacheKeyText(tools[1].id, lastCall.reply.first),
                second |-> generateCacheKeyText(tools[1].id, lastCall.reply.second)]
  /\ pc' = "KEYS_MADE"
  /\ UNCHANGED retryVars
  /\ UNCHANGED <<rounds, batching>>
  /\ UNCHANGED <<query, depth, iteration, currentQuery, allResults, allSources,
                 toolSelectionHistory, analysis, newTools, optimizedQueries,
                 iterationResults, selection, executed, calls, exhausted, lastGap,
                 allFailed, lastCall>>

SpecKey == KeyInit /\ [][GenerateKeys]_vars

\* ================================================================== claims
Returned == pc \in {"DONE", "SCORED"}

\* C1: when every reasoning-service call of the run has failed and every
\* tool call has failed (thrown on every attempt or returned success=false),
\* the run has not thrown, and once it is over it has returned a result
\* with an answer, sources, a confidence and metadata.
C1_ReturnsWhenEverythingFails ==
  allFailed => /\ pc # "THROWN"
               /\ pc = "DONE" => DOMAIN result = {"answer", "sources", "confidence", "metadata"}

C1_Witness ==
  /\ pc = "DONE" /\ allFailed
  /\ \E i \in DOMAIN allResults : allResults[i].attempts = MaxRetries + 1
  /\ \E i \in DOMAIN allResults : allResults[i].error = "timeout"

\* C2: whatever parsable reply of the wrong shape the reasoning service
\* gives at any stage, the run does not throw.
C2_NeverThrows == pc # "THROWN"

\* C3: the confidence of every returned result is a number in [0,1].
C3_ConfidenceInUnitInterval == Returned => InUnitInterval(result.confidence)

C3_Witness ==
  /\ pc = "SCORED"
  /\ Len(Successful(allResults)) = 2
  /\ RLeq(<<9, 10>>, result.confidence)

\* C4: the iteration count reported in the metadata is at most depth.
C4_IterationsAtMostDepth == pc = "DONE" => result.metadata.iterations <= depth

\* C5: every run eventually returns, after at most depth rounds.
C5_EventuallyDone == <>(pc = "DONE" /\ Len(executed) <= depth)

\* C6: after gap analysis the run starts another round exactly when a gap
\* and a follow-up query were reported and the incremented iteration
\* counter is below depth, and goes to synthesis otherwise; with depth 3, a
\* gap and follow-up query after round 1 and no gap after round 2, two
\* rounds were run and two iterations are reported.
C6_Scenario ==
  /\ depth = 3 /\ iteration = 1 /\ ~exhausted /\ ~lastGap.hasGaps
  /\ pc \in {"SYNTHESIZING", "DONE"}

C6_ScenarioRunsTwoRounds ==
  C6_Scenario => (Len(executed) = 2 /\ (pc = "DONE" => result.metadata.iterations = 2))

C6_GapStep ==
  pc = "GAP_ANALYSIS" =>
    (/\ pc' \in {"SELECTING", "SYNTHESIZING"}
     /\ pc' = "SELECTING" <=>
          (lastGap'.hasGaps /\ lastGap'.followUpQuery # "none" /\ iteration' < depth))

C6_ContinueOnlyOnGap == []C6_ScenarioRunsTwoRounds /\ [][C6_GapStep]_vars

C6_Witness == C6_Scenario /\ pc = "DONE" /\ result.metadata.iterations = 2

C8_NoLoopCall ==
  /\ executed' = executed
  /\ calls'.optimize = calls.optimize
  /\ calls'.assess = calls.assess
  /\ calls'.gaps = calls.gaps
  /\ allSources' = allSources
  /\ toolSelectionHistory' = toolSelectionHistory

C8_ExhaustedStep ==
  (pc = "SELECTING" /\ pc' # "THROWN"
   /\ Range(selection'.ids) \subseteq Range(toolSelectionHistory))
  => (pc' = "SYNTHESIZING" /\ allResults' = allResults /\ C8_NoLoopCall)

C8_AfterLoopStep ==
  pc \in {"SYNTHESIZING", "DONE"} => (pc' \in {"SYNTHESIZING", "DONE"} /\ C8_NoLoopCall)

C9_AtMostMaxTools ==
  /\ Len(selection.ids) <= selection.maxTools
  /\ \A r \in DOMAIN executed : Len(executed[r]) <= MaxToolsFor(depth)

\* C10: every tool selectBestTools returns is a tool of the registry, and
\* so is every tool that is executed, also when the reply of the reasoning
\* service names an id that no tool carries.
C10_SelectionInRegistry ==
  /\ Range(selection.ids) \subseteq ToolIds
  /\ \A r \in DOMAIN executed : Range(executed[r]) \subseteq ToolIds

C10_Witness ==
  /\ pc = "ASSESSING" /\ selection.unknown
  /\ Len(selection.ids) = 1
  /\ executed[Len(executed)] = selection.ids

\* C20: in every returned result the ids of the sources are pairwise
\* different.
C20_SourceIdsUnique ==
  pc = "DONE" =>
    \A i, j \in DOMAIN result.sources :
      i # j => result.sources[i].id # result.sources[j].id

\* C12: when the reasoning-service call of assessRelevance fails, every
\* result of the round is kept, in the original order.
C12_FailOpenStep ==
  (pc = "ASSESSING" /\ lastCall'.failed = <<TRUE>>)
  => allResults' = allResults \o iterationResults

C12_AssessFailOpen == [][C12_FailOpenStep]_vars

C12_Witness ==
  /\ pc = "GAP_ANALYSIS" /\ lastCall.failed = <<TRUE>>
  /\ Len(iterationResults) = 2
  /\ iterationResults[1].success /\ ~iterationResults[2].success
  /\ allResults = iterationResults

\* C13: when every reasoning-service call of the gap analysis fails, the
\* analysis reports no gap and no follow-up query, be it the single call of
\* analyzeGaps or the calls of analyzeGapsWithBatching, and the loop goes
\* to synthesis without another round.
C13_AllCallsFailed ==
  /\ lastCall.stage \in {"gaps", "gapsBatched"}
  /\ \A i \in DOMAIN lastCall.failed : lastCall.failed[i]

C13_NoGapReported == C13_AllCallsFailed => lastGap = NoGap

C13_FailClosedStep ==
  (pc = "GAP_ANALYSIS" /\ lastCall'.failed = <<TRUE>>)
  => (pc' = "SYNTHESIZING" /\ iteration' = iteration)

C13_GapsFailClosed == []C13_NoGapReported /\ [][C13_FailClosedStep]_vars

C13_Witness ==
  /\ pc = "GAPS_ANALYZED" /\ C13_AllCallsFailed
  /\ Len(lastCall.failed) = 3 /\ Len(allResults) = 4

\* C11: when the selection reply fails, cannot be parsed, names no tool or
\* names no registered tool, selectBestTools returns min(maxTools, registry
\* size) tools: those of highest relevance score, in descending order of
\* score with equal scores in declaration order, and one reasoning string
\* that notes the fallback.
C11_ReplyUnusable ==
  \/ lastCall.reply.kind # "object"
  \/ ~IsList(lastCall.reply.selectedTools)
  \/ Range(lastCall.reply.selectedTools.v) \cap ToolIds = {}

C11_Position(id) == CHOOSE i \in DOMAIN tools : tools[i].id = id

\* tool a goes before tool b in the order of the fallback
C11_Before(a, b) ==
  LET sa == calculateRelevanceScore(FindTool(a), currentQuery, analysis)
      sb == calculateRelevanceScore(FindTool(b), currentQuery, analysis)
  IN sa > sb \/ (sa = sb /\ C11_Position(a) < C11_Position(b))

C11_FallbackByScore ==
  (pc = "SELECTED" /\ C11_ReplyUnusable) =>
    LET ids == result.selectedTools
    IN /\ Len(ids) = Min(selection.maxTools, Len(tools))
       /\ Range(ids) \subseteq ToolIds
       /\ \A i, j \in DOMAIN ids : i < j => C11_Before(ids[i], ids[j])
       /\ \A i \in DOMAIN ids : \A t \in ToolIds \ Range(ids) : C11_Before(ids[i], t)
       /\ result.reasoning = FallbackReasoning
       /\ Len(result.reasoning) = 1

C11_Witness ==
  /\ pc = "SELECTED"
  /\ lastCall.reply.kind = "object" /\ lastCall.reply.selectedTools = JList(<<UnknownId>>)
  /\ selection.maxTools = 1
  /\ result.selectedTools = <<tools[2].id>>

\* C14: executeToolWithRetry never throws and calls tool.execute at most
\* maxRetries + 1 times, whatever the tool does on each attempt and, with
\* a cache, whatever the get and the put do; when it is over it has
\* returned a ToolResult.
C14_NeverThrowsBoundedCalls ==
  \A c \in DOMAIN callers :
    /\ callers[c].pc \in {"LOOKUP", "CALL", "BACKOFF", "STORE", "RETURNED"}
    /\ Len(callers[c].calls) <= callers[c].maxRetries + 1
    /\ callers[c].pc = "RETURNED" =>
         (callers[c].result # None /\ callers[c].result.success \in BOOLEAN)

C14_Witness ==
  \E c \in DOMAIN callers :
    /\ callers[c].pc = "RETURNED" /\ cacheConfigured
    /\ callers[c].lookup = "failed"
    /\ callers[c].maxRetries = MaxRetriesArg
    /\ callers[c].calls = <<"throw", "throwValue", "throw", "ok">>
    /\ cache[KeyOf(callers[c])] = None

\* C15: every attempt after the first follows a tool.execute call that
\* threw, with fewer than maxRetries retries made before, and a wait of
\* 1000 * 2^attempt; a call that returns a result, successful or not, is
\* the last one and its result is the one handed back.
C15_RetryOnlyAfterThrow ==
  \A c \in DOMAIN callers :
    LET me == callers[c]
        n == Len(me.calls)
    IN /\ n <= Len(me.delays) + 1
       /\ \A i \in DOMAIN me.delays :
            /\ i <= n /\ me.calls[i] \in Throws
            /\ i <= me.maxRetries
            /\ me.delays[i] = 1000 * Pow2(i - 1)
       /\ \A i \in DOMAIN me.calls :
            me.calls[i] \notin Throws =>
              /\ i = n /\ me.pc \in {"STORE", "RETURNED"}
              /\ me.result = ToolExecute(FindTool(me.tool), me.params, me.calls[i])

C15_Witness ==
  \E c \in DOMAIN callers :
    /\ callers[c].pc = "RETURNED" /\ callers[c].maxRetries = 3
    /\ callers[c].calls = <<"throw", "throwValue", "fail">>
    /\ callers[c].delays = <<1000, 2000>>
    /\ ~callers[c].result.success

\* C16: when tool.execute has thrown on each of the maxRetries + 1
\* attempts, the result is a failure without data whose error is the
\* message of the last error thrown ('Unknown error' for a thrown value
\* that is no Error) and whose attempts field is maxRetries + 1.
C16_MessageOf(outcome) == IF outcome = "throw" THEN "thrown" ELSE "Unknown error"

C16_ExhaustedResult ==
  \A c \in DOMAIN callers :
    LET me == callers[c]
    IN (/\ me.pc = "RETURNED" /\ Len(me.calls) = me.maxRetries + 1
        /\ \A i \in DOMAIN me.calls : me.calls[i] \in Throws)
       => /\ ~me.result.success
          /\ me.result.data = NullData
          /\ me.result.error = C16_MessageOf(me.calls[Len(me.calls)])
          /\ me.result.attempts = me.maxRetries + 1

C16_Witness ==
  \E c \in DOMAIN callers :
    /\ callers[c].pc = "RETURNED" /\ callers[c].maxRetries = 2
    /\ callers[c].calls = <<"throwValue", "throwValue", "throw">>
    /\ callers[c].result.error = "thrown" /\ callers[c].result.attempts = 3

\* C17: with a cache configured, a lookup whose get succeeds and finds an
\* entry under the key makes the call return that entry marked fromCache
\* without any call of tool.execute; after a lookup that finds none, or
\* whose get fails, the tool is called and the result is not marked
\* fromCache.
C17_HitOrMiss ==
  \A c \in DOMAIN callers :
    LET me == callers[c]
    IN /\ me.lookup = "hit" =>
            /\ me.pc = "RETURNED" /\ me.calls = <<>>
            /\ me.result.fromCache
            /\ cache[KeyOf(me)] # None
            /\ me.result = [JSONParse(cache[KeyOf(me)]) EXCEPT !.fromCache = TRUE]
       /\ (me.lookup \in {"miss", "failed"} /\ me.pc \in {"STORE", "RETURNED"}) =>
            (Len(me.calls) >= 1 /\ ~me.result.fromCache)

C17_LookupStep ==
  \A c \in DOMAIN callers :
    (callers[c].pc = "LOOKUP" /\ callers'[c].pc # "LOOKUP") =>
      /\ (cache[KeyOf(callers[c])] # None /\ callers'[c].lookup # "failed")
           => callers'[c].lookup = "hit"
      /\ cache[KeyOf(callers[c])] = None => callers'[c].lookup \in {"miss", "failed"}

C17_CacheHitShortCircuits == []C17_HitOrMiss /\ [][C17_LookupStep]_vars

\* C17 as stated: whenever the cache holds an entry under the key, the
\* lookup is a hit and the call returns without calling tool.execute.
C17_EntryAlwaysHitStep ==
  \A c \in DOMAIN callers :
    (callers[c].pc = "LOOKUP" /\ callers'[c].pc # "LOOKUP"
       /\ cache[KeyOf(callers[c])] # None)
      => (callers'[c].lookup = "hit" /\ callers'[c].pc = "RETURNED")

C17_EntryAlwaysHit == [][C17_EntryAlwaysHitStep]_vars

C17_Witness ==
  \E c \in DOMAIN callers :
    /\ callers[c].pc = "RETURNED" /\ callers[c].lookup = "hit"
    /\ callers[c].result.fromCache /\ callers[c].result.success
    /\ callers[c].calls = <<>>

\* C18: under every interleaving of calls that share the cache, every
\* entry is a successful result, and for every call whose key it is stored
\* under it is a result that a tool.execute call made for that call's tool
\* and parameters returned.
C18_ReturnedFor(r, tool, params) ==
  \E d \in DOMAIN callers :
    /\ callers[d].tool = tool /\ callers[d].params = params
    /\ \E i \in DOMAIN callers[d].calls :
         /\ callers[d].calls[i] \notin Throws
         /\ r = ToolExecute(FindTool(tool), params, callers[d].calls[i])

C18_EntriesAreExecutedSuccesses ==
  \A k \in DOMAIN cache :
    cache[k] # None =>
      /\ JSONParse(cache[k]).success
      /\ \E c \in DOMAIN callers : KeyOf(callers[c]) = k
      /\ \A c \in DOMAIN callers :
           KeyOf(callers[c]) = k =>
             C18_ReturnedFor(JSONParse(cache[k]), callers[c].tool, callers[c].params)

C18_Witness ==
  \E c, d \in DOMAIN callers :
    /\ c # d /\ KeyOf(callers[c]) = KeyOf(callers[d])
    /\ callers[c].pc = "RETURNED" /\ callers[d].pc = "RETURNED"
    /\ callers[c].lookup = "miss" /\ callers[d].lookup = "miss"
    /\ callers[c].result.data = LaterData
    /\ callers[d].result.success /\ callers[d].result.data # LaterData
    /\ cache[KeyOf(callers[c])] = JSONStringify(callers[d].result)

\* C19: a call without a cache and a call with a cache that holds no entry
\* for the key both make the tool.execute calls of the plain retry loop for
\* the same tool behaviour, and return a result with its success, data and
\* error.
C19_Behaviour(me) ==
  [i \in 1..(me.maxRetries + 1) |-> IF i <= Len(me.calls) THEN me.calls[i] ELSE "ok"]

C19_SameAsWithoutCache ==
  \A c \in DOMAIN callers :
    LET me == callers[c]
        uncached == RetryFrom(FindTool(me.tool), me.params, C19_Behaviour(me), 0, me.maxRetries)
    IN (me.pc = "RETURNED" /\ (~cacheConfigured \/ me.lookup = "miss")) =>
         /\ me.calls = CallsFrom(C19_Behaviour(me), 0, me.maxRetries)
         /\ me.result.success = uncached.success
         /\ me.result.data = uncached.data
         /\ me.result.error = uncached.error

C19_Witness ==
  \E c \in DOMAIN callers :
    /\ cacheConfigured /\ callers[c].lookup = "miss" /\ callers[c].pc = "RETURNED"
    /\ callers[c].calls = <<"throw", "ok">>
    /\ cache[KeyOf(callers[c])] = JSONStringify(callers[c].result)

\* C21: in every returned result the sources are in ascending order of id.
C21_SourcesAscending ==
  pc = "DONE" =>
    \A i \in 1..(Len(result.sources) - 1) :
      result.sources[i].id <= result.sources[i + 1].id

\* C22: when no tool execution of the run has succeeded, the returned
\* result has no source and confidence 0, whatever the reasoning service
\* answered.
C22_NoToolSucceeded == \A i \in DOMAIN rounds : ~rounds[i].succeeded

C22_AllToolsFailedZero ==
  (pc = "DONE" /\ C22_NoToolSucceeded) =>
    (result.sources = <<>> /\ result.confidence = Zero)

C22_Witness ==
  /\ pc = "DONE" /\ C22_NoToolSucceeded
  /\ Len(rounds) = 2
  /\ Len(allResults) >= 2
  /\ calls.assess = 2 /\ ~allFailed
  /\ result.answer.citations > 0
  /\ result.confidence = Zero /\ result.sources = <<>>

\* C23: when every tool execution and every reasoning-service call of the
\* run has failed, the answer is a non-empty text that reports that no
\* result was found, synthesis having run over no accepted result.
C23_NoResultsAnswer ==
  (pc = "DONE" /\ allFailed) =>
    /\ ~result.answer.empty
    /\ result.answer.found = 0
    /\ result.metadata.totalResults = 0

\* C24: the answer of every returned result is a non-empty text.
C24_AnswerNonEmpty == pc = "DONE" => ~result.answer.empty

\* C25: the confidence of a returned result is a number above 0 whenever
\* one of the accepted results is successful and the answer holds at least
\* one citation.
C25_PositiveWithCitation ==
  (/\ Returned
   /\ \E i \in DOMAIN allResults : allResults[i].success
   /\ result.answer.citations >= 1)
  => (~IsNaN(result.confidence) /\ ~RLeq(result.confidence, Zero))

C25_Witness ==
  /\ Returned
  /\ Len(allResults) = 2 /\ ~allResults[1].success /\ allResults[2].success
  /\ ~allResults[2].hasConf
  /\ result.answer.citations >= 1 /\ result.answer.sections = 0
  /\ RLeq(result.confidence, Half) /\ result.confidence[1] > 0

\* C26: the results a round accepted are never removed: allResults only
\* grows at its end, and the list handed to synthesis and to confidence
\* scoring is the concatenation, in round order, of what assessRelevance
\* kept in each round.
RECURSIVE C26_Concat(_)
C26_Concat(rs) ==
  IF rs = <<>> THEN <<>> ELSE Head(rs).accepted \o C26_Concat(Tail(rs))

C26_Accumulated ==
  /\ pc # "DONE" => allResults = C26_Concat(rounds)
  /\ pc = "DONE" =>
       /\ allResults = MarkFirstSuccessful(C26_Concat(rounds))
       /\ result.metadata.totalResults = Len(C26_Concat(rounds))
       /\ result.confidence = calculateConfidence(C26_Concat(rounds), analysis, result.answer)
       /\ result.answer.found \in {-1, Len(C26_Concat(rounds))}

C26_Witness ==
  /\ pc = "DONE" /\ Len(rounds) = 2
  /\ Len(rounds[1].accepted) = 1 /\ rounds[1].accepted[1].success
  /\ rounds[2].accepted = <<>> /\ rounds[2].succeeded
  /\ result.metadata.totalResults = 1
  /\ ~IsNaN(result.confidence) /\ ~RLeq(result.confidence, Zero)

\* C27: for every query and every analysis analyzeQuery returns, the
\* relevance score of each registered tool is a number from 0 to 1 (the
\* scores are in thousandths).
C27_ScoreInUnitInterval ==
  pc = "SELECTED" =>
    \A i \in DOMAIN tools :
      /\ calculateRelevanceScore(tools[i], currentQuery, analysis) >= 0
      /\ calculateRelevanceScore(tools[i], currentQuery, analysis) <= 1000

\* C28: for one query text, analyzeQuery returns the extractedUrls and the
\* extractedYouTubeUrls that the patterns find in the text whatever the
\* reasoning service replies; when the call fails or its text cannot be
\* used the analysis returned has confidence 0.5, and otherwise a
\* confidence of at least 0.7.
C28_SameUrls(f(_, _)) ==
  \A r \in AnalyzeAloneReplies :
    /\ f(query, r).extractedUrls = f(query, lastCall.reply).extractedUrls
    /\ f(query, r).extractedYouTubeUrls = f(query, lastCall.reply).extractedYouTubeUrls

C28_Confidence(a) ==
  IF lastCall.failed = <<TRUE>>
  THEN a.confidence = Half
  ELSE RLeq(SevenTenths, a.confidence) /\ RLeq(a.confidence, One)

C28_UrlsIndependentOfReply ==
  pc = "ANALYZED" =>
    /\ analysis.extractedUrls = query.urls /\ analysis.extractedYouTubeUrls = query.yt
    /\ result.extractedUrls = query.urls /\ result.extractedYouTubeUrls = query.yt
    /\ C28_SameUrls(analyzeQuery) /\ C28_SameUrls(analyzeQueryEnhancer)
    /\ C28_Confidence(analysis) /\ C28_Confidence(result)

C28_Witness ==
  /\ pc = "ANALYZED" /\ lastCall.failed = <<TRUE>>
  /\ Len(analysis.extractedUrls) = 1 /\ Len(analysis.extractedYouTubeUrls) = 1
  /\ analysis.confidence = Half /\ result.confidence = Half
  /\ result.extractedUrls = analysis.extractedUrls

\* C29: each round makes one reasoning-service call to optimize the
\* queries of all its tools, and when that call fails or its text cannot
\* be parsed the map returned has one entry for each tool of the round and
\* no other, each holding the query that was passed in and no parameter.
C29_OneCallStep ==
  (pc = "OPTIMIZING" /\ pc' = "EXECUTING") =>
    (calls'.optimize = calls.optimize + 1 /\ Len(lastCall'.failed) = 1)

C29_FallbackMap ==
  (pc = "EXECUTING" /\ lastCall.stage = "optimize" /\ lastCall.failed = <<TRUE>>) =>
    /\ ~optimizedQueries.isNull
    /\ DOMAIN optimizedQueries.entries = Range(newTools)
    /\ \A id \in Range(newTools) :
         optimizedQueries.entries[id] =
           [query |-> currentQuery.text, url |-> "undefined", videoId |-> "undefined"]

C29_OneCallFallbackPerTool == []C29_FallbackMap /\ [][C29_OneCallStep]_vars

C29_Witness ==
  /\ pc = "EXECUTING" /\ lastCall.stage = "optimize" /\ lastCall.failed = <<TRUE>>
  /\ Len(newTools) = 2 /\ calls.optimize = 2
  /\ currentQuery = QueryFollowUp
  /\ optimizedQueries.entries[newTools[2]].query = QueryFollowUp.text

\* C30: whatever the reasoning service replies, the map that
\* optimizeQueriesForTools returns has an entry with a query for each tool
\* of the round.
C30_EntryForEveryTool ==
  pc = "EXECUTING" =>
    /\ ~optimizedQueries.isNull
    /\ \A id \in Range(newTools) :
         /\ id \in DOMAIN optimizedQueries.entries
         /\ optimizedQueries.entries[id].query # "undefined"

\* C31: whatever the optimizer returned, the parameters of each tool carry
\* the first extracted URL as url when the analysis found a URL, and the
\* video id of the first extracted media link as videoId when it found a
\* media link.
C31_ExtractedFieldsWin ==
  pc = "PARAMS_BUILT" =>
    \A i \in DOMAIN result :
      /\ Len(analysis.extractedUrls) > 0 => result[i].url = analysis.extractedUrls[1]
      /\ Len(analysis.extractedYouTubeUrls) > 0 =>
           result[i].videoId = analysis.extractedYouTubeUrls[1].id

\* C32: within one round no tool id is executed twice.
C32_OncePerRound ==
  \A r \in DOMAIN executed :
    \A i, j \in DOMAIN executed[r] : i # j => executed[r][i] # executed[r][j]

\* C33: every source of a returned result names, as tool name and as
\* toolType, the tool whose execution produced the record it was taken
\* from.
C33_SourceNamesItsTool ==
  pc = "DONE" =>
    \A i \in DOMAIN result.sources :
      /\ result.sources[i].toolType = result.sources[i].from
      /\ result.sources[i].tool = FindTool(result.sources[i].from).name

\* C34: a run leaves the loop for lack of a new tool only when every
\* registered tool has been used in the run.
C34_ExhaustedOnlyWhenAllUsed ==
  exhausted => Range(toolSelectionHistory) = ToolIds

\* C35: the tool calls of a round are all started in one step, before any
\* of them has made progress; the relevance assessment starts only when
\* every call of the round has returned, after its own retries; and the
\* results assessed are those of all the calls, failed or not, in the
\* order of the tools.
C35_StartStep ==
  (callers = <<>> /\ callers' # <<>>) =>
    /\ Len(callers') = Len(newTools)
    /\ \A c \in DOMAIN callers' :
         /\ callers'[c].tool = newTools[c]
         /\ callers'[c].pc = "CALL" /\ callers'[c].calls = <<>>

C35_AssessStep ==
  (pc # "ROUND_ASSESSED" /\ pc' = "ROUND_ASSESSED") =>
    /\ \A c \in DOMAIN callers :
         /\ callers[c].pc = "RETURNED"
         /\ Len(callers[c].calls) >= 1
         /\ callers[c].calls[Len(callers[c].calls)] \in Throws
              => Len(callers[c].calls) = MaxRetries + 1
    /\ Len(iterationResults') = Len(newTools)
    /\ \A i \in DOMAIN newTools :
         iterationResults'[i] = callers[i].result /\ iterationResults'[i].by = newTools[i]
    /\ lastCall'.failed = <<TRUE>> => allResults' = iterationResults'

C35_NothingBeforeSettled ==
  pc = "ROUND_RUNNING" => (allResults = <<>> /\ iterationResults = <<>> /\ calls.assess = 0)

C35_ConcurrentRound ==
  []C35_NothingBeforeSettled /\ [][C35_StartStep]_vars /\ [][C35_AssessStep]_vars

C35_Witness ==
  /\ pc = "ROUND_ASSESSED" /\ Len(newTools) = 2
  /\ callers[1].calls = <<"throw", "throw", "throw">>
  /\ callers[2].calls = <<"throw", "ok">>
  /\ ~iterationResults[1].success /\ iterationResults[2].success
  /\ Len(allResults) = 2 /\ allResults[2].success

\* C36: every assessRelevanceWithBatching call returns in the end, whatever
\* the number of results, the batch size and the replies of the reasoning
\* service.
C36_BatchingReturns == <>(batching.pc = "DONE")

\* C37: at no moment are more than maxParallelBatches assessRelevance calls
\* of an assessRelevanceWithBatching call unresolved, and the calls of a
\* group are made only when no call of an earlier group is unresolved.
C37_InFlight == {k \in DOMAIN batching.inflight : ~batching.inflight[k].done}

C37_AtMostMaxParallel == Cardinality(C37_InFlight) <= batching.maxParallelBatches

C37_GroupStartStep ==
  (batching'.pc = "AWAIT" /\ batching.pc # "AWAIT") =>
    /\ C37_InFlight = {}
    /\ batching'.batchStart % batching.maxParallelBatches = 0
    /\ \A k \in DOMAIN batching'.inflight :
         batching'.inflight[k] =
           PendingCall(BatchSlice(batching.results, batching.batchSize,
                                  batching.batchStart, k - 1))

C37_GroupsInTurn == []C37_AtMostMaxParallel /\ [][C37_GroupStartStep]_vars

C37_Witness ==
  /\ batching.pc = "AWAIT" /\ batching.batchStart = 2 /\ batching.maxParallelBatches = 2
  /\ Len(batching.results) = 5 /\ batching.batchSize = 1
  /\ Len(batching.inflight) = 2 /\ Cardinality(C37_InFlight) = 2
  /\ Len(batching.relevantResults) = 2

\* C38: what assessRelevance returns, in orchestrator.ts and in
\* resultProcessor.ts, and what assessRelevanceWithBatching returns, is a
\* subsequence of the results it was given: results of the input only, none
\* twice, in the order of the input, whatever the reply.
RECURSIVE C38_IsSubsequence(_, _)
C38_IsSubsequence(a, b) ==
  IF a = <<>> THEN TRUE
  ELSE IF b = <<>> THEN FALSE
  ELSE IF Head(a) = Head(b) THEN C38_IsSubsequence(Tail(a), Tail(b))
  ELSE C38_IsSubsequence(a, Tail(b))

C38_Subsequence ==
  /\ pc = "RELEVANCE_ASSESSED" => C38_IsSubsequence(allResults, iterationResults)
  /\ \A k \in DOMAIN batching.inflight :
       batching.inflight[k].done =>
         C38_IsSubsequence(batching.inflight[k].out, batching.inflight[k].batch)
  /\ batching.pc = "DONE" => C38_IsSubsequence(batching.returned, iterationResults)

C38_Witness ==
  /\ batching.pc = "DONE" /\ Len(iterationResults) = 5 /\ batching.batchSize = 2
  /\ batching.returned = <<iterationResults[1], iterationResults[3], iterationResults[4]>>
  /\ pc = "RELEVANCE_ASSESSED" /\ lastCall.reply = [kind |-> "list", v |-> <<9, 0, 0>>]
  /\ allResults = <<iterationResults[1]>>

\* C39: for more results than the batch size, analyzeGapsWithBatching
\* analyzes every batch; when a batch reports a gap it returns the report of
\* the first such batch and makes no final analysis; otherwise it makes one
\* final analysis, of the highest-confidence result of each batch (the
\* first of them on ties) followed by a sample of at most batchSize of the
\* other results, no result twice.  The input of the final analysis is
\* therefore bounded by the number of batches plus the batch size, and not
\* by the batch size.
C39_Batched ==
  /\ pc = "GAPS_ANALYZED" /\ lastCall.stage = "gapsBatched"
  /\ Len(allResults) > lastCall.batchSize

C39_NumBatches == NumBatches(Len(allResults), lastCall.batchSize)

C39_Batch(k) ==
  SubSeq(allResults, (k - 1) * lastCall.batchSize + 1,
         Min(k * lastCall.batchSize, Len(allResults)))

C39_GapReported == \E k \in 1..C39_NumBatches : lastCall.reply.reported[k]

C39_Representative(k) ==
  LET batch == C39_Batch(k)
  IN \E p \in DOMAIN batch :
       /\ iterationResults[k] = batch[p]
       /\ \A q \in DOMAIN batch : ConfidenceOrZero(batch[q]) <= ConfidenceOrZero(batch[p])
       /\ \A q \in 1..(p - 1) : ConfidenceOrZero(batch[q]) < ConfidenceOrZero(batch[p])

C39_FinalInput ==
  /\ Len(iterationResults) >= C39_NumBatches
  /\ \A k \in 1..C39_NumBatches : C39_Representative(k)
  /\ Range(iterationResults) \subseteq Range(allResults)
  /\ \A i, j \in DOMAIN iterationResults : i # j => iterationResults[i] # iterationResults[j]
  /\ Len(iterationResults) - C39_NumBatches
       = Min(lastCall.batchSize, Len(allResults) - C39_NumBatches)
  /\ Len(iterationResults) <= C39_NumBatches + lastCall.batchSize

C40_DefinedPairs(entries) == {e \in Range(entries) : e[2] # "undefined"}

C40_SamePairsSameKey ==
  (pc = "KEYS_MADE"
     /\ C40_DefinedPairs(lastCall.reply.first) = C40_DefinedPairs(lastCall.reply.second))
    => result.first = result.second

C40_Witness ==
  /\ pc = "KEYS_MADE"
  /\ lastCall.reply.first = << <<"url", "q2">>, <<"query", "q1">> >>
  /\ lastCall.reply.second = << <<"videoId", "undefined">>, <<"query", "q1">>, <<"url", "q2">> >>
  /\ result.first = result.second
  /\ result.first = <<tools[1].id, ":", "query", ":", "\"", "q1", "\"", ",",
                      "url", ":", "\"", "q2", "\"">>
====
